---- MODULE Spec2Model ----
(***************************************************************************)
(* A model of kodudo: the path interpolator (config/expander.py            *)
(* interpolate_path), the config expander (expand_config,                  *)
(* _apply_output_spec), the data normalizer (data/loader.py load_data),    *)
(* the config loader (config/loader.py load_config), the cooking pipeline  *)
(* (cook, cook_from_config, _cook_single) and the command line             *)
(* (__main__.py main). Each has a specification of its own: SpecInterp,    *)
(* SpecExpand, SpecData, SpecConfig, SpecCook and SpecCli.                 *)
(*                                                                         *)
(* Python values are tagged records [t |-> <type>, v |-> <payload>]:       *)
(*   str   v is the sequence of its characters (one-character strings)     *)
(*   int   v is the integer                                                *)
(*   dict  v is the sequence of <<key, value>> pairs in insertion order,   *)
(*         keys being character sequences, no key twice                    *)
(*   list, tuple   v is the sequence of the elements                       *)
(*   Path  v is the character sequence str() gives (pathlib's normal form) *)
(*   None  no payload                                                      *)
(***************************************************************************)
EXTENDS Integers, Sequences, FiniteSets, TLC

VARIABLES
    pc,            \* where the operation under study stands
    path_str,      \* interpolate_path: argument path_str (character sequence)
    variables,     \* interpolate_path: argument variables (a dict)
    interpolated,  \* interpolate_path: outcome (returned string or raised error)
    config,        \* expand_config: argument config (a Config)
    outputs,       \* expand_config: argument outputs (None or tuple of OutputSpec)
    data,          \* expand_config: argument data (None or tuple of records)
    expanded,      \* expand_config: outcome (returned list or raised error)
    heap,          \* expand_config: the dict objects alive, by identity
    context_ids,   \* expand_config: identity of each returned config's context
    written,       \* expand_config: index of the returned config written into
    file,          \* load_data: the file at the given path
    loaded,        \* load_data: outcome (LoadedData or raised error)
    cfg_file,      \* load_config: the file at the given path
    batch,         \* load_config: outcome (BatchConfig or raised error)
    context_override, \* cook_from_config: argument context (None or a dict)
    output_override,  \* cook_from_config: argument output (None or a str)
    ctx_file,      \* cook: the file at the context-file path
    job,           \* cook: index in the expanded list of the config being cooked
    cook_context,  \* cook: _cook_single's merged context for the current config
    result,        \* cook: the text rendered for the current config
    mkdirs,        \* cook: the directories created so far, in order
    writes,        \* cook: the files written so far, in order
    disk,          \* cook: the content of each file under the output paths
    result_paths,  \* cook: cook_from_config's list of written paths
    cooked,        \* cook: outcome (returned paths or raised error)
    argv,          \* main: the config files named on the command line
    arg_i,         \* main: index of the config path the loop is at
    attempts,      \* main: the config paths handed to cook so far
    exit_code      \* main: the exit code accumulated so far

\* the variables of cook alone, and of the command line
cookVars == <<context_override, output_override, ctx_file, job, cook_context,
              result, mkdirs, writes, disk, result_paths, cooked>>
cliVars == <<argv, arg_i, attempts, exit_code>>
objVars == <<heap, context_ids, written>>

vars == <<pc, path_str, variables, interpolated, config, outputs, data,
          expanded, objVars, file, loaded, cfg_file, batch, cookVars,
          cliVars>>

-----------------------------------------------------------------------------
(* Bounds of the model. *)

\* longest path_str given to interpolate_path on its own
MaxLen == 6
\* most OutputSpec entries in outputs
MaxSpecs == 2
\* most records in data, and in a list of a data file
MaxRecords == 2
\* most config paths on the command line
MaxConfigs == 3

-----------------------------------------------------------------------------
(* Python values. *)

None == [t |-> "None"]
PyStr(s) == [t |-> "str", v |-> s]
PyInt(n) == [t |-> "int", v |-> n]
PyDict(pairs) == [t |-> "dict", v |-> pairs]
PyList(elems) == [t |-> "list", v |-> elems]
PyTuple(elems) == [t |-> "tuple", v |-> elems]
PyPath(s) == [t |-> "Path", v |-> s]

\* isinstance(x, dict), isinstance(x, list)
IsDict(x) == x.t = "dict"
IsList(x) == x.t = "list"

\* the outcome of a call: a returned value or a raised exception
Returned(value) == [kind |-> "ok", value |-> value]
Raised(error, msg) == [kind |-> "error", error |-> error, msg |-> msg]
NotCalled == [kind |-> "none"]

\* concatenation of a sequence of sequences, in order
RECURSIVE Flatten(_)
Flatten(ss) ==
    IF ss = <<>> THEN <<>> ELSE Head(ss) \o Flatten(Tail(ss))

\* dict operations: keys(), `key in d`, d[key], d[key] = value, d.update(e)
DictKeys(d) == {d.v[i][1] : i \in DOMAIN d.v}
DictHas(d, key) == key \in DictKeys(d)
DictGet(d, key) == d.v[CHOOSE i \in DOMAIN d.v : d.v[i][1] = key][2]
DictSet(d, key, value) ==
    IF DictHas(d, key)
    THEN PyDict([i \in DOMAIN d.v |->
                    IF d.v[i][1] = key THEN <<key, value>> ELSE d.v[i]])
    ELSE PyDict(Append(d.v, <<key, value>>))

RECURSIVE UpdateFrom(_, _, _)
UpdateFrom(d, e, i) ==
    IF i > Len(e.v) THEN d
    ELSE UpdateFrom(DictSet(d, e.v[i][1], e.v[i][2]), e, i + 1)

DictUpdate(d, e) == UpdateFrom(d, e, 1)

\* `x or {}` for x a dict or None: None and the empty dict are falsy
OrEmptyDict(x) == IF x = None \/ x.v = <<>> THEN PyDict(<<>>) ELSE x

\* s.split(sep) for a one-character sep: the pieces between the
\* separators, empty ones included
RECURSIVE SplitFrom(_, _, _, _)
SplitFrom(s, sep, i, cur) ==
    IF i > Len(s) THEN <<cur>>
    ELSE IF s[i] = sep THEN <<cur>> \o SplitFrom(s, sep, i + 1, <<>>)
    ELSE SplitFrom(s, sep, i + 1, Append(cur, s[i]))

SplitOn(s, sep) == SplitFrom(s, sep, 1, <<>>)

\* sep.join(parts)
RECURSIVE Join(_, _)
Join(parts, sep) ==
    IF parts = <<>> THEN <<>>
    ELSE IF Len(parts) = 1 THEN parts[1]
    ELSE parts[1] \o <<sep>> \o Join(Tail(parts), sep)

\* the sequences over S of length at most n
SeqsUpTo(S, n) == UNION {[1..k -> S] : k \in 0..n}

-----------------------------------------------------------------------------
(* pathlib: Path(s) for a str s, on POSIX. The "" and "." components are    *)
(* dropped, repeated and trailing slashes collapse, a leading "/" is the    *)
(* root (exactly two leading slashes are kept as "//"), and the empty path  *)
(* is ".".                                                                  *)

IsDotOrEmpty(part) == Len(part) = 0 \/ (Len(part) = 1 /\ part[1] = ".")

PathParts(s) == SelectSeq(SplitOn(s, "/"), LAMBDA part : ~IsDotOrEmpty(part))

PathRoot(s) ==
    IF Len(s) >= 1 /\ s[1] = "/"
    THEN IF Len(s) >= 2 /\ s[2] = "/" /\ (Len(s) = 2 \/ s[3] # "/")
         THEN <<"/", "/">>
         ELSE <<"/">>
    ELSE <<>>

PathOf(s) ==
    LET root == PathRoot(s)
        parts == PathParts(s)
    IN  IF Len(root) = 0 /\ Len(parts) = 0 THEN PyPath(<<".">>)
        ELSE PyPath(root \o Join(parts, "/"))

-----------------------------------------------------------------------------
(* str() and repr() of the values a placeholder can reach. *)

Digits == <<"0", "1", "2", "3", "4", "5", "6", "7", "8", "9">>

RECURSIVE NatStr(_)
NatStr(n) ==
    IF n < 10 THEN <<Digits[n + 1]>>
    ELSE NatStr(n \div 10) \o <<Digits[(n % 10) + 1]>>

IntStr(n) == IF n < 0 THEN <<"-">> \o NatStr(-n) ELSE NatStr(n)

\* repr of a str without quotes or backslashes in it
StrRepr(s) == <<"'">> \o s \o <<"'">>

RECURSIVE Repr(_)
RECURSIVE JoinItems(_, _)
JoinItems(pairs, i) ==
    IF i > Len(pairs) THEN <<>>
    ELSE (IF i > 1 THEN <<",", " ">> ELSE <<>>)
         \o StrRepr(pairs[i][1]) \o <<":", " ">> \o Repr(pairs[i][2])
         \o JoinItems(pairs, i + 1)

Repr(x) ==
    CASE x.t = "str" -> StrRepr(x.v)
      [] x.t = "int" -> IntStr(x.v)
      [] x.t = "None" -> <<"N", "o", "n", "e">>
      [] x.t = "dict" -> <<"{">> \o JoinItems(x.v, 1) \o <<"}">>

\* str(x): a str is itself, a Path its normal form, anything else its repr
Str(x) ==
    CASE x.t = "str" -> x.v
      [] x.t = "Path" -> x.v
      [] OTHER -> Repr(x)

-----------------------------------------------------------------------------
(* interpolate_path: re.sub(r"\{([^}]+)\}", _resolve, path_str). *)

\* expr.split("."): the segments between the dots, empty ones included
Split(s) == SplitOn(s, ".")

\* the loop of _resolve with a missing key read as the empty string, as
\* current.get(part, "") would
RECURSIVE Walk_get_default(_, _, _, _)
Walk_get_default(expr, parts, k, current) ==
    IF k > Len(parts) THEN Returned(Str(current))
    ELSE IF ~IsDict(current)
         THEN [kind |-> "error", error |-> "ConfigError", msg |-> "non-mapping",
               expr |-> expr, part |-> parts[k]]
    ELSE IF ~DictHas(current, parts[k]) THEN Returned(<<>>)
    ELSE Walk_get_default(expr, parts, k + 1, DictGet(current, parts[k]))

\* the loop of _resolve from segment k on, current being the value reached
RECURSIVE Walk(_, _, _, _)
Walk(expr, parts, k, current) ==
    IF k > Len(parts) THEN Returned(Str(current))
    ELSE IF ~IsDict(current)
         THEN [kind |-> "error", error |-> "ConfigError", msg |-> "non-mapping",
               expr |-> expr, part |-> parts[k]]
    ELSE IF ~DictHas(current, parts[k])
         THEN [kind |-> "error", error |-> "ConfigError", msg |-> "not found",
               expr |-> expr, part |-> parts[k]]
    ELSE Walk(expr, parts, k + 1, DictGet(current, parts[k]))

\* _resolve(match) for match.group(1) = expr
resolve(expr, vs) == Walk(expr, Split(expr), 1, vs)

\* the index of the last "}" of s after position p, 0 when there is none:
\* what the greedy pattern \{(.+)\} would take as the end of the match
ClosingBraceGreedy(s, p) ==
    IF \E q \in (p + 1)..Len(s) : s[q] = "}"
    THEN CHOOSE q \in (p + 1)..Len(s) :
            s[q] = "}" /\ \A r \in (q + 1)..Len(s) : s[r] # "}"
    ELSE 0

\* the index of the first "}" of s after position p, 0 when there is none
ClosingBrace(s, p) ==
    IF \E q \in (p + 1)..Len(s) : s[q] = "}"
    THEN CHOOSE q \in (p + 1)..Len(s) :
            s[q] = "}" /\ \A r \in (p + 1)..(q - 1) : s[r] # "}"
    ELSE 0

\* the pattern \{([^}]+)\} matches at position p of s
MatchAt(s, p) == s[p] = "{" /\ ClosingBrace(s, p) >= p + 2

\* re.sub from position i on: the matches are taken leftmost first, do not
\* overlap, and the replacement text is not scanned again; the first
\* placeholder that does not resolve raises
RECURSIVE SubFrom(_, _, _)
SubFrom(s, i, vs) ==
    IF i > Len(s) THEN Returned(<<>>)
    ELSE IF MatchAt(s, i)
    THEN LET q == ClosingBrace(s, i)
             r == resolve(SubSeq(s, i + 1, q - 1), vs)
         IN  IF r.kind = "error" THEN r
             ELSE LET rest == SubFrom(s, q + 1, vs)
                  IN  IF rest.kind = "error" THEN rest
                      ELSE Returned(r.value \o rest.value)
    ELSE LET rest == SubFrom(s, i + 1, vs)
         IN  IF rest.kind = "error" THEN rest
             ELSE Returned(<<s[i]>> \o rest.value)

interpolate_path(s, vs) == SubFrom(s, 1, vs)

-----------------------------------------------------------------------------
(* The specification of interpolate_path on its own. *)

\* the characters of path_str: the three the pattern and split() look at,
\* and one letter
RECURSIVE StringsUpTo(_)
StringsUpTo(n) ==
    IF n = 0 THEN {<<>>}
    ELSE LET shorter == StringsUpTo(n - 1)
         IN  shorter \cup {Append(s, c) : s \in {x \in shorter : Len(x) = n - 1},
                                          c \in {"{", "}", ".", "a"}}

\* the mappings given as variables
VariablePool ==
    { PyDict(<<>>),
      PyDict(<< <<<<"a">>, PyStr(<<"x">>)>> >>),
      PyDict(<< <<<<"a">>, PyDict(<< <<<<"a">>, PyInt(12)>> >>)>>,
                <<<<"a", "a">>, PyStr(<<"{", "a", "}">>)>> >>),
      PyDict(<< <<<<>>, PyStr(<<"y">>)>>,
                <<<<"a">>, PyDict(<< <<<<>>, PyStr(<<"z", "/">>)>>,
                                     <<<<"a">>, None>> >>)>> >>) }

Unused == [t |-> "unused"]

\* the config loader takes no part
ConfigIdle == cfg_file = Unused /\ batch = NotCalled

\* cook takes no part
CookIdle ==
    /\ context_override = Unused /\ output_override = Unused
    /\ ctx_file = Unused /\ job = Unused /\ cook_context = Unused
    /\ result = Unused /\ mkdirs = Unused /\ writes = Unused
    /\ disk = Unused /\ result_paths = Unused /\ cooked = NotCalled

\* no object is followed by identity
ObjectsIdle == heap = Unused /\ context_ids = Unused /\ written = Unused

\* the command line takes no part
CliIdle ==
    /\ argv = Unused /\ arg_i = Unused /\ attempts = Unused
    /\ exit_code = Unused

InitInterp ==
    /\ pc = "call"
    /\ path_str \in StringsUpTo(MaxLen)
    /\ variables \in VariablePool
    /\ interpolated = NotCalled
    /\ config = Unused /\ outputs = Unused /\ data = Unused
    /\ expanded = NotCalled
    /\ file = Unused /\ loaded = NotCalled
    /\ ConfigIdle /\ CookIdle /\ CliIdle /\ ObjectsIdle

CallInterpolatePath ==
    /\ pc = "call"
    /\ interpolated' = interpolate_path(path_str, variables)
    /\ pc' = "done"
    /\ UNCHANGED <<path_str, variables, config, outputs, data, expanded,
                   file, loaded, cfg_file, batch, cookVars,
                   cliVars, objVars>>

NextInterp == CallInterpolatePath

SpecInterp == InitInterp /\ [][NextInterp]_vars

-----------------------------------------------------------------------------
(* Claims about interpolate_path, checked under SpecInterp. The            *)
(* placeholders, their segments and the values they reach are stated here  *)
(* by position, not by scanning.                                           *)

\* interpolate_path has been called on path_str, variables
Interpolated == pc = "done"

\* the positions of s where a placeholder starts: a "{" followed by at
\* least one character other than "}" and then a "}", and not itself
\* inside a placeholder that started earlier
PlaceholderStarts(s) ==
    {p \in 1..Len(s) :
        /\ s[p] = "{"
        /\ \E q \in (p + 2)..Len(s) :
              s[q] = "}" /\ \A r \in (p + 1)..(q - 1) : s[r] # "}"
        /\ \A p0 \in 1..(p - 1) :
              s[p0] = "{" => \E r \in (p0 + 1)..(p - 1) : s[r] = "}"}

\* the position of the "}" that ends the placeholder starting at p
PlaceholderEnd(s, p) ==
    CHOOSE q \in (p + 2)..Len(s) :
        s[q] = "}" /\ \A r \in (p + 1)..(q - 1) : s[r] # "}"

\* the text between the braces
PlaceholderExpr(s, p) == SubSeq(s, p + 1, PlaceholderEnd(s, p) - 1)

DotsOf(expr) == {i \in 1..Len(expr) : expr[i] = "."}

NumSegments(expr) == Cardinality(DotsOf(expr)) + 1

\* the position of the k-th dot of expr; 0 for k = 0, Len(expr) + 1 past
\* the last
DotAt(expr, k) ==
    IF k = 0 THEN 0
    ELSE IF k > Cardinality(DotsOf(expr)) THEN Len(expr) + 1
    ELSE CHOOSE d \in DotsOf(expr) :
            Cardinality({e \in DotsOf(expr) : e < d}) = k - 1

\* the k-th dot-separated segment of expr
Segment(expr, k) == SubSeq(expr, DotAt(expr, k - 1) + 1, DotAt(expr, k) - 1)

\* the value reached from vs after the first k segments of expr
RECURSIVE Reached(_, _, _)
Reached(vs, expr, k) ==
    IF k = 0 THEN vs
    ELSE DictGet(Reached(vs, expr, k - 1), Segment(expr, k))

\* segment k can be taken: the value before it is a mapping with that key
StepOk(vs, expr, k) ==
    /\ IsDict(Reached(vs, expr, k - 1))
    /\ DictHas(Reached(vs, expr, k - 1), Segment(expr, k))

\* every segment can be taken, each one after those before it
Resolvable(vs, expr) == \A k \in 1..NumSegments(expr) : StepOk(vs, expr, k)

\* the first segment that cannot be taken
FirstBadSegment(vs, expr) ==
    CHOOSE k \in 1..NumSegments(expr) :
        (\A k0 \in 1..(k - 1) : StepOk(vs, expr, k0)) /\ ~StepOk(vs, expr, k)

Unresolved(s, vs) ==
    {p \in PlaceholderStarts(s) : ~Resolvable(vs, PlaceholderExpr(s, p))}

\* what position p of s contributes to the result
Piece(s, vs, p) ==
    IF p \in PlaceholderStarts(s)
    THEN Str(Reached(vs, PlaceholderExpr(s, p),
                     NumSegments(PlaceholderExpr(s, p))))
    ELSE IF \E p0 \in PlaceholderStarts(s) :
                p0 < p /\ p <= PlaceholderEnd(s, p0)
    THEN <<>>
    ELSE <<s[p]>>

\* C8: when every placeholder of path_str resolves in variables,
\* interpolate_path returns path_str with each placeholder replaced by the
\* string form of the value its segments lead to and every character
\* outside the placeholders kept; a path_str without placeholders is
\* returned as it is.
C8_Substitution ==
    (Interpolated /\ Unresolved(path_str, variables) = {}) =>
        /\ interpolated.kind = "ok"
        /\ interpolated.value
              = Flatten([p \in 1..Len(path_str) |->
                            Piece(path_str, variables, p)])
        /\ PlaceholderStarts(path_str) = {} => interpolated.value = path_str

\* "{a.a}." against {"a": {"a": 12}, "aa": "{a}"} gives "12."
C8_Witness ==
    /\ Interpolated
    /\ path_str = <<"{", "a", ".", "a", "}", ".">>
    /\ DictHas(variables, <<"a", "a">>)
    /\ interpolated = Returned(<<"1", "2", ".">>)

\* C9: interpolate_path raises a ConfigError and returns nothing exactly
\* when some placeholder does not resolve; the error is that of the first
\* such placeholder at its first segment that cannot be taken: "non-mapping"
\* when the value reached before the segment is not a mapping (tested
\* first), "not found" when it is a mapping without the segment as a key.
C9_Unresolvable ==
    Interpolated =>
        /\ interpolated.kind \in {"ok", "error"}
        /\ interpolated.kind = "error" <=> Unresolved(path_str, variables) # {}
        /\ interpolated.kind = "error" =>
              LET p == CHOOSE p1 \in Unresolved(path_str, variables) :
                          \A p2 \in Unresolved(path_str, variables) : p1 <= p2
                  expr == PlaceholderExpr(path_str, p)
                  k == FirstBadSegment(variables, expr)
              IN  /\ interpolated.error = "ConfigError"
                  /\ interpolated.expr = expr
                  /\ interpolated.part = Segment(expr, k)
                  /\ interpolated.msg =
                        IF IsDict(Reached(variables, expr, k - 1))
                        THEN "not found" ELSE "non-mapping"

\* "{a.a}." against {"a": "x"}: the second segment meets the str "x" where
\* it needs a mapping
C9_Witness ==
    /\ Interpolated
    /\ path_str = <<"{", "a", ".", "a", "}", ".">>
    /\ variables = PyDict(<< <<<<"a">>, PyStr(<<"x">>)>> >>)
    /\ interpolated.kind = "error"
    /\ interpolated.msg = "non-mapping"

-----------------------------------------------------------------------------
(* Config, OutputSpec and expand_config. *)

\* OutputSpec(output, input, template, format, template_dirs, context_file,
\* context): output a str, the others a value or None
OutputSpec(output, input, template, format, dirs, context_file, context) ==
    [output |-> output, input |-> input, template |-> template,
     format |-> format, template_dirs |-> dirs,
     context_file |-> context_file, context |-> context]

\* tuple(Path(p) for p in dirs)
PathsOf(dirs) == PyTuple([i \in DOMAIN dirs.v |-> PathOf(dirs.v[i].v)])

\* _apply_output_spec with the spec's context replacing the base context
\* instead of being merged into it
apply_output_spec_replacing(cfg, spec) ==
    LET c1 == [cfg EXCEPT !.output = PathOf(spec.output.v)]
        c2 == IF spec.input # None
              THEN [c1 EXCEPT !.input = PathOf(spec.input.v)] ELSE c1
        c3 == IF spec.template # None
              THEN [c2 EXCEPT !.template = PathOf(spec.template.v)] ELSE c2
        c4 == IF spec.format # None
              THEN [c3 EXCEPT !.format = spec.format] ELSE c3
        c5 == IF spec.template_dirs # None
              THEN [c4 EXCEPT !.template_dirs = PathsOf(spec.template_dirs)]
              ELSE c4
        c6 == IF spec.context_file # None
              THEN [c5 EXCEPT !.context_file = PathOf(spec.context_file.v)]
              ELSE c5
    IN  IF spec.context # None
        THEN [c6 EXCEPT !.context = spec.context]
        ELSE c6

\* _apply_output_spec: replace(config, **overrides)
apply_output_spec(cfg, spec) ==
    LET c1 == [cfg EXCEPT !.output = PathOf(spec.output.v)]
        c2 == IF spec.input # None
              THEN [c1 EXCEPT !.input = PathOf(spec.input.v)] ELSE c1
        c3 == IF spec.template # None
              THEN [c2 EXCEPT !.template = PathOf(spec.template.v)] ELSE c2
        c4 == IF spec.format # None
              THEN [c3 EXCEPT !.format = spec.format] ELSE c3
        c5 == IF spec.template_dirs # None
              THEN [c4 EXCEPT !.template_dirs = PathsOf(spec.template_dirs)]
              ELSE c4
        c6 == IF spec.context_file # None
              THEN [c5 EXCEPT !.context_file = PathOf(spec.context_file.v)]
              ELSE c5
    IN  IF spec.context # None
        THEN [c6 EXCEPT !.context =
                 DictUpdate(OrEmptyDict(cfg.context), spec.context)]
        ELSE c6

\* has_foreach = config.foreach is not None
has_foreach(cfg) == cfg.foreach # None

\* has_outputs without the length test
has_outputs_not_none(outs) == outs # None

\* has_outputs = outputs is not None and len(outputs) > 0
has_outputs(outs) == outs # None /\ Len(outs.v) > 0

\* the loop body with the binding added by setdefault: an existing context
\* key of the foreach name is kept
expand_one_setdefault(cfg, base, record) ==
    LET vs == PyDict(<< <<cfg.foreach.v, record>> >>)
        new_output == interpolate_path(Str(base.output), vs)
        ctx == OrEmptyDict(base.context)
        merged_context == IF DictHas(ctx, cfg.foreach.v) THEN ctx
                          ELSE DictSet(ctx, cfg.foreach.v, record)
    IN  IF new_output.kind = "error" THEN new_output
        ELSE Returned([base EXCEPT !.output = PathOf(new_output.value),
                                   !.context = merged_context])

\* the loop body with an output that does not resolve kept as it is
expand_one_verbatim(cfg, base, record) ==
    LET vs == PyDict(<< <<cfg.foreach.v, record>> >>)
        new_output == interpolate_path(Str(base.output), vs)
        merged_context == DictSet(OrEmptyDict(base.context), cfg.foreach.v,
                                  record)
    IN  Returned([base EXCEPT !.output =
                                  IF new_output.kind = "error" THEN base.output
                                  ELSE PathOf(new_output.value),
                              !.context = merged_context])

\* the body of the two nested loops for one base config and one record:
\* the derived config, or the error interpolate_path raises
expand_one(cfg, base, record) ==
    LET vs == PyDict(<< <<cfg.foreach.v, record>> >>)
        new_output == interpolate_path(Str(base.output), vs)
        merged_context == DictSet(OrEmptyDict(base.context), cfg.foreach.v,
                                  record)
    IN  IF new_output.kind = "error" THEN new_output
        ELSE Returned([base EXCEPT !.output = PathOf(new_output.value),
                                   !.context = merged_context])

\* the two loops nested the other way round: records outside, bases inside
RECURSIVE foreach_loop_record_major(_, _, _, _, _)
foreach_loop_record_major(cfg, base_configs, records, i, j) ==
    IF j > Len(records) THEN Returned(<<>>)
    ELSE IF i > Len(base_configs)
    THEN foreach_loop_record_major(cfg, base_configs, records, 1, j + 1)
    ELSE LET one == expand_one(cfg, base_configs[i], records[j])
         IN  IF one.kind = "error" THEN one
             ELSE LET rest == foreach_loop_record_major(cfg, base_configs,
                                                        records, i + 1, j)
                  IN  IF rest.kind = "error" THEN rest
                      ELSE Returned(<<one.value>> \o rest.value)

\* the loops with a pair whose output does not resolve left out of the list
\* instead of ending the loops with its error
RECURSIVE foreach_loop_skipping(_, _, _, _, _)
foreach_loop_skipping(cfg, base_configs, records, i, j) ==
    IF i > Len(base_configs) THEN Returned(<<>>)
    ELSE IF j > Len(records)
    THEN foreach_loop_skipping(cfg, base_configs, records, i + 1, 1)
    ELSE LET one == expand_one(cfg, base_configs[i], records[j])
             rest == foreach_loop_skipping(cfg, base_configs, records, i, j + 1)
         IN  IF one.kind = "error" THEN rest
             ELSE Returned(<<one.value>> \o rest.value)

\* `for base in base_configs: for record in data:` from base i, record j on;
\* the first error ends the loops
RECURSIVE foreach_loop(_, _, _, _, _)
foreach_loop(cfg, base_configs, records, i, j) ==
    IF i > Len(base_configs) THEN Returned(<<>>)
    ELSE IF j > Len(records)
    THEN foreach_loop(cfg, base_configs, records, i + 1, 1)
    ELSE LET one == expand_one(cfg, base_configs[i], records[j])
         IN  IF one.kind = "error" THEN one
             ELSE LET rest == foreach_loop(cfg, base_configs, records, i, j + 1)
                  IN  IF rest.kind = "error" THEN rest
                      ELSE Returned(<<one.value>> \o rest.value)

\* `not data`: true of None and of the empty tuple
data_is_empty_or_none(recs) == recs = None \/ Len(recs.v) = 0

\* the guards on data: `data is None`, `len(data) == 0`
data_is_none(recs) == recs = None

data_is_empty(recs) == Len(recs.v) = 0

\* expand_config with the emptiness test made before the None test
expand_config_empty_first(cfg, outs, recs) ==
    LET base_configs ==
            IF has_outputs(outs)
            THEN [i \in DOMAIN outs.v |-> apply_output_spec(cfg, outs.v[i])]
            ELSE <<cfg>>
    IN  IF ~has_outputs(outs) /\ ~has_foreach(cfg) THEN Returned(<<cfg>>)
        ELSE IF ~has_foreach(cfg) THEN Returned(base_configs)
        ELSE IF data_is_empty_or_none(recs) THEN Returned(<<>>)
        ELSE foreach_loop(cfg, base_configs, recs.v, 1, 1)

expand_config(cfg, outs, recs) ==
    LET base_configs ==
            IF has_outputs(outs)
            THEN [i \in DOMAIN outs.v |-> apply_output_spec(cfg, outs.v[i])]
            ELSE <<cfg>>
    IN  IF ~has_outputs(outs) /\ ~has_foreach(cfg) THEN Returned(<<cfg>>)
        ELSE IF ~has_foreach(cfg) THEN Returned(base_configs)
        ELSE IF data_is_none(recs)
             THEN Raised("ConfigError", "foreach requires data")
        ELSE IF data_is_empty(recs) THEN Returned(<<>>)
        ELSE foreach_loop(cfg, base_configs, recs.v, 1, 1)

-----------------------------------------------------------------------------
(* expand_config on objects. A Python dict is an object with an identity;  *)
(* the heap maps the identity of every dict alive to its content, and a    *)
(* write into a dict shows through every reference to that dict. The       *)
(* context of the given config is the object ("config", 0), the context of *)
(* output spec i is ("spec", i), record j is ("record", j); the dicts the  *)
(* call creates are ("merged", i) in _apply_output_spec for spec i and     *)
(* ("loop", n) for the n-th pass of the loop body. A record is bound       *)
(* in a context by value: only writes of a key into a context are          *)
(* followed.                                                               *)

ObjId(kind, n) == [kind |-> kind, n |-> n]

\* the context object of a config as given, None when it has no context
context_id(cfg) == IF cfg.context = None THEN None ELSE ObjId("config", 0)

\* `x or {}` read through the heap: the content of x, {} for None
Deref(h, id) == IF id = None THEN PyDict(<<>>) ELSE h[id]

\* d[key] = ..., d.update(...), and the creation of d: the dict id holds
\* content afterwards
Store(h, id, content) ==
    [x \in DOMAIN h \cup {id} |-> IF x = id THEN content ELSE h[x]]

\* `x or {}` without the dict() around it: the object x itself when there
\* is one
dict_copy_aliasing(source_id, new_id) ==
    IF source_id # None THEN source_id ELSE new_id

\* dict(x or {}): a new dict object, whatever x is
dict_copy(source_id, new_id) == new_id

\* the context object of the config _apply_output_spec returns for spec i
apply_output_spec_id(cfg, spec, i) ==
    IF spec.context # None
    THEN dict_copy(context_id(cfg), ObjId("merged", i))
    ELSE context_id(cfg)

\* the heap after _apply_output_spec for the specs from i on: merged =
\* dict(config.context or {}); merged.update(spec.context)
RECURSIVE apply_output_specs_heap(_, _, _, _)
apply_output_specs_heap(h, cfg, outs, i) ==
    IF i > Len(outs.v) THEN h
    ELSE LET spec == outs.v[i]
             merged == DictUpdate(Deref(h, context_id(cfg)), h[ObjId("spec", i)])
         IN  apply_output_specs_heap(
                 IF spec.context # None
                 THEN Store(h, apply_output_spec_id(cfg, spec, i), merged)
                 ELSE h,
                 cfg, outs, i + 1)

\* the heap and the context objects of the configs appended, from pass n
\* of the loop body on: interpolate_path first, whose error ends the call,
\* then merged_context = dict(base.context or {});
\* merged_context[config.foreach] = record
RECURSIVE foreach_loop_objects(_, _, _, _, _, _, _)
foreach_loop_objects(h, ids, cfg, base_configs, base_ids, records, n) ==
    IF n > Len(base_configs) * Len(records) THEN [heap |-> h, ids |-> ids]
    ELSE LET s == ((n - 1) \div Len(records)) + 1
             r == ((n - 1) % Len(records)) + 1
             id == dict_copy(base_ids[s], ObjId("loop", n))
             merged_context == DictSet(Deref(h, base_ids[s]), cfg.foreach.v,
                                       records[r])
         IN  IF expand_one(cfg, base_configs[s], records[r]).kind = "error"
             THEN [heap |-> h, ids |-> <<>>]
             ELSE foreach_loop_objects(Store(h, id, merged_context),
                                       Append(ids, id), cfg, base_configs,
                                       base_ids, records, n + 1)

\* expand_config on the heap h: the heap after the call and the context
\* object of each config returned (no config when the call raises)
expand_config_objects(h, cfg, outs, recs) ==
    LET base_configs ==
            IF has_outputs(outs)
            THEN [i \in DOMAIN outs.v |-> apply_output_spec(cfg, outs.v[i])]
            ELSE <<cfg>>
        base_ids ==
            IF has_outputs(outs)
            THEN [i \in DOMAIN outs.v |->
                      apply_output_spec_id(cfg, outs.v[i], i)]
            ELSE <<context_id(cfg)>>
        h1 == IF has_outputs(outs) THEN apply_output_specs_heap(h, cfg, outs, 1)
              ELSE h
    IN  IF ~has_outputs(outs) /\ ~has_foreach(cfg)
        THEN [heap |-> h, ids |-> <<context_id(cfg)>>]
        ELSE IF ~has_foreach(cfg) THEN [heap |-> h1, ids |-> base_ids]
        ELSE IF data_is_none(recs) THEN [heap |-> h1, ids |-> <<>>]
        ELSE IF data_is_empty(recs) THEN [heap |-> h1, ids |-> <<>>]
        ELSE foreach_loop_objects(h1, <<>>, cfg, base_configs, base_ids,
                                  recs.v, 1)

-----------------------------------------------------------------------------
(* The specification of expand_config. *)

K_a == <<"a">>
K_k == <<"k">>
K_l == <<"l">>
K_s == <<"s">>
K_t == <<"t">>

\* the configs given: foreach unset, the empty string or "a"; context
\* unset, empty, or one holding the key "a" (the foreach name) and the key
\* "k" (a key the specs set too); output "o", "{a.s}.h" or "{.s}"
BaseConfigs ==
    { [input |-> PathOf(<<"i">>), template |-> PathOf(<<"t">>), output |-> o,
       format |-> PyStr(<<"h", "t", "m", "l">>), template_dirs |-> PyTuple(<<>>),
       context_file |-> None, context |-> c, base_path |-> None,
       foreach |-> f] :
      o \in { PathOf(<<"o">>), PathOf(<<"{", "a", ".", "s", "}", ".", "h">>),
              PathOf(<<"{", ".", "s", "}">>) },
      c \in { None, PyDict(<<>>),
              PyDict(<< <<K_a, PyInt(1)>>, <<K_k, PyInt(2)>> >>) },
      f \in {None, PyStr(<<>>), PyStr(K_a)} }

\* OutputSpec("p"); OutputSpec("q/{a.s}", context={"k": 9, "l": 3}); and
\* OutputSpec("./r//{a.s}", input="j", template="u", format="markdown",
\*            template_dirs=("d/",), context_file="c", context={})
SpecPool ==
    { OutputSpec(PyStr(<<"p">>), None, None, None, None, None, None),
      OutputSpec(PyStr(<<"q", "/", "{", "a", ".", "s", "}">>), None, None, None,
                 None, None,
                 PyDict(<< <<K_k, PyInt(9)>>, <<K_l, PyInt(3)>> >>)),
      OutputSpec(PyStr(<<".", "/", "r", "/", "/", "{", "a", ".", "s", "}">>),
                 PyStr(<<"j">>), PyStr(<<"u">>),
                 PyStr(<<"m", "a", "r", "k", "d", "o", "w", "n">>),
                 PyTuple(<<PyStr(<<"d", "/">>)>>), PyStr(<<"c">>),
                 PyDict(<<>>)) }

\* the records: {"s": "x"}, {"s": 7, "a": "y"} and {"t": "x"} (no "s")
R_x == PyDict(<< <<K_s, PyStr(<<"x">>)>> >>)
R_7 == PyDict(<< <<K_s, PyInt(7)>>, <<K_a, PyStr(<<"y">>)>> >>)
R_t == PyDict(<< <<K_t, PyStr(<<"x">>)>> >>)

RecordPool == {R_x, R_7, R_t}

\* the dict objects given to expand_config: the config's context, the
\* contexts of the output specs, the records
InputHeap(cfg, outs, recs) ==
    LET ids == (IF cfg.context = None THEN {} ELSE {ObjId("config", 0)})
               \cup (IF outs = None THEN {}
                     ELSE {ObjId("spec", i) : i \in
                             {i \in DOMAIN outs.v : outs.v[i].context # None}})
               \cup (IF recs = None THEN {}
                     ELSE {ObjId("record", j) : j \in DOMAIN recs.v})
    IN  [id \in ids |->
            CASE id.kind = "config" -> cfg.context
              [] id.kind = "spec" -> outs.v[id.n].context
              [] id.kind = "record" -> recs.v[id.n]]

InitExpand ==
    /\ pc = "call"
    /\ config \in BaseConfigs
    /\ outputs \in {None} \cup {PyTuple(ss) : ss \in SeqsUpTo(SpecPool, MaxSpecs)}
    /\ data \in {None} \cup {PyTuple(rs) : rs \in SeqsUpTo(RecordPool, MaxRecords)}
    /\ expanded = NotCalled
    /\ heap = InputHeap(config, outputs, data)
    /\ context_ids = <<>> /\ written = 0
    /\ path_str = Unused /\ variables = Unused /\ interpolated = NotCalled
    /\ file = Unused /\ loaded = NotCalled
    /\ ConfigIdle /\ CookIdle /\ CliIdle

CallExpandConfig ==
    /\ pc = "call"
    /\ expanded' = expand_config(config, outputs, data)
    /\ LET after == expand_config_objects(heap, config, outputs, data)
       IN  heap' = after.heap /\ context_ids' = after.ids
    /\ pc' = "done"
    /\ UNCHANGED <<config, outputs, data, written, path_str, variables,
                   interpolated, file, loaded, cfg_file, batch, cookVars,
                   cliVars>>

\* the caller writes the key "w" into the context of one returned config
WriteContext ==
    /\ pc = "done"
    /\ \E n \in DOMAIN context_ids :
          /\ context_ids[n] # None
          /\ written' = n
          /\ heap' = Store(heap, context_ids[n],
                           DictSet(heap[context_ids[n]], <<"w">>, PyInt(0)))
    /\ pc' = "written"
    /\ UNCHANGED <<config, outputs, data, expanded, context_ids, path_str,
                   variables, interpolated, file, loaded, cfg_file, batch,
                   cookVars, cliVars>>

NextExpand == CallExpandConfig \/ WriteContext

SpecExpand == InitExpand /\ [][NextExpand]_vars

-----------------------------------------------------------------------------
(* Claims about expand_config, checked under SpecExpand. *)

\* expand_config has been called on config, outputs, data
Expanded == pc = "done"

NumSpecs == IF outputs = None THEN 0 ELSE Len(outputs.v)
NumRecords == IF data = None THEN 0 ELSE Len(data.v)

\* the config derived from output spec i (1-based) alone
SpecBase(i) == apply_output_spec(config, outputs.v[i])

\* the mapping {foreach: record}
Binding(record) == PyDict(<< <<config.foreach.v, record>> >>)

\* the output placeholders of base resolve against record j (1-based)
Resolves(base, j) ==
    interpolate_path(Str(base.output), Binding(data.v[j])).kind = "ok"

\* a mapping or None, read as a set of keys and a lookup
KeysOf(ctx) == IF ctx = None THEN {} ELSE DictKeys(ctx)

\* ctx is a dict holding exactly the keys and the given value of each
HasExactly(ctx, keys, value(_)) ==
    /\ ctx # None
    /\ IsDict(ctx)
    /\ Len(ctx.v) = Cardinality(keys)
    /\ DictKeys(ctx) = keys
    /\ \A key \in keys : DictGet(ctx, key) = value(key)

\* C1: with foreach set, S >= 1 output specs and R >= 1 records, the
\* returned list has S*R configs and the one at position i*R+j (0-based) is
\* the config derived from spec i and record j; the list is returned
\* whenever every output placeholder resolves against every record, and the
\* call raises a ConfigError otherwise.
C1_CartesianOrder ==
    (Expanded /\ config.foreach # None /\ NumSpecs >= 1 /\ NumRecords >= 1) =>
        IF \A i \in 1..NumSpecs, j \in 1..NumRecords : Resolves(SpecBase(i), j)
        THEN /\ expanded.kind = "ok"
             /\ Len(expanded.value) = NumSpecs * NumRecords
             /\ \A i \in 0..(NumSpecs - 1), j \in 0..(NumRecords - 1) :
                   LET c == expanded.value[i * NumRecords + j + 1]
                       base == SpecBase(i + 1)
                       record == data.v[j + 1]
                   IN  /\ c = expand_one(config, base, record).value
                       /\ c.output = PathOf(interpolate_path(
                                        Str(PathOf(outputs.v[i + 1].output.v)),
                                        Binding(record)).value)
                       /\ DictGet(c.context, config.foreach.v) = record
                       /\ c.input = base.input
        ELSE expanded.kind = "error" /\ expanded.error = "ConfigError"

\* two different specs and two different records all expanded
C1_Witness ==
    /\ Expanded /\ config.foreach # None
    /\ NumSpecs = 2 /\ NumRecords = 2
    /\ outputs.v[1] # outputs.v[2] /\ data.v[1] # data.v[2]
    /\ expanded.kind = "ok" /\ Len(expanded.value) = 4
    /\ expanded.value[2] # expanded.value[3]

\* C2: with foreach unset and outputs absent or empty, expand_config returns
\* the one-element list [config], whatever data is.
C2_Passthrough ==
    (Expanded /\ config.foreach = None /\ NumSpecs = 0) =>
        expanded = Returned(<<config>>)

\* outputs present but empty, data present and non-empty
C2_Witness ==
    /\ Expanded /\ config.foreach = None
    /\ outputs = PyTuple(<<>>) /\ NumRecords >= 1
    /\ expanded = Returned(<<config>>)

\* C3: with foreach unset and S >= 1 output specs, expand_config returns one
\* config per spec in spec order; config i has the output of spec i, the
\* input, template, format, template_dirs, context_file of spec i where the
\* spec sets them and of the base config where it does not, base_path and
\* foreach of the base config; its context is the base context when the
\* spec has none, and otherwise holds the keys of both with the spec's value
\* on every key the spec has and the base's value on the others.
C3_OutputsOnly ==
    (Expanded /\ config.foreach = None /\ NumSpecs >= 1) =>
        /\ expanded.kind = "ok"
        /\ Len(expanded.value) = NumSpecs
        /\ \A i \in 1..NumSpecs :
              LET c == expanded.value[i]
                  spec == outputs.v[i]
                  merged(key) == IF DictHas(spec.context, key)
                                 THEN DictGet(spec.context, key)
                                 ELSE DictGet(config.context, key)
              IN  /\ c.output = PathOf(spec.output.v)
                  /\ c.input = IF spec.input = None THEN config.input
                               ELSE PathOf(spec.input.v)
                  /\ c.template = IF spec.template = None THEN config.template
                                  ELSE PathOf(spec.template.v)
                  /\ c.format = IF spec.format = None THEN config.format
                                ELSE spec.format
                  /\ c.template_dirs =
                        IF spec.template_dirs = None THEN config.template_dirs
                        ELSE PyTuple([k \in DOMAIN spec.template_dirs.v |->
                                        PathOf(spec.template_dirs.v[k].v)])
                  /\ c.context_file =
                        IF spec.context_file = None THEN config.context_file
                        ELSE PathOf(spec.context_file.v)
                  /\ c.base_path = config.base_path
                  /\ c.foreach = config.foreach
                  /\ IF spec.context = None THEN c.context = config.context
                     ELSE HasExactly(c.context,
                                     KeysOf(config.context)
                                         \cup DictKeys(spec.context),
                                     merged)

\* a spec whose context shares a key with the base context and adds one
C3_Witness ==
    /\ Expanded /\ config.foreach = None /\ NumSpecs = 2
    /\ expanded.kind = "ok"
    /\ \E i \in 1..2 :
          /\ outputs.v[i].context # None
          /\ config.context # None
          /\ K_k \in DictKeys(config.context) \cap DictKeys(outputs.v[i].context)
          /\ DictGet(config.context, K_k) # DictGet(outputs.v[i].context, K_k)
          /\ DictGet(expanded.value[i].context, K_k)
                = DictGet(outputs.v[i].context, K_k)
          /\ DictGet(expanded.value[i].context, K_a)
                = DictGet(config.context, K_a)

\* C4: with foreach name f set, no output specs and records r0..r(n-1),
\* expand_config returns n configs in record order; config j has as output
\* the path of the base output string interpolated against {f: rj}, as
\* context the base context with f bound to rj (replacing an existing key
\* f), and the other fields of the base config; the list is returned
\* whenever the placeholders resolve against every record, and the call
\* raises a ConfigError otherwise.
C4_ForeachOnly ==
    (Expanded /\ config.foreach # None /\ NumSpecs = 0 /\ data # None) =>
        IF \A j \in 1..NumRecords : Resolves(config, j)
        THEN /\ expanded.kind = "ok"
             /\ Len(expanded.value) = NumRecords
             /\ \A j \in 1..NumRecords :
                   LET c == expanded.value[j]
                       f == config.foreach.v
                       bound(key) == IF key = f THEN data.v[j]
                                     ELSE DictGet(config.context, key)
                   IN  /\ c.output = PathOf(interpolate_path(
                                        Str(config.output),
                                        PyDict(<< <<f, data.v[j]>> >>)).value)
                       /\ HasExactly(c.context,
                                     KeysOf(config.context) \cup {f}, bound)
                       /\ [c EXCEPT !.output = config.output,
                                    !.context = config.context] = config
        ELSE expanded.kind = "error" /\ expanded.error = "ConfigError"

\* two different records, a base context that already has the key f, and
\* an output path that depends on the record
C4_Witness ==
    /\ Expanded /\ config.foreach # None /\ NumSpecs = 0
    /\ NumRecords = 2 /\ data.v[1] # data.v[2]
    /\ config.context # None /\ DictHas(config.context, config.foreach.v)
    /\ expanded.kind = "ok" /\ Len(expanded.value) = 2
    /\ expanded.value[1].output # expanded.value[2].output
    /\ expanded.value[1].output # config.output
    /\ DictGet(expanded.value[2].context, config.foreach.v) = data.v[2]

\* C5: with foreach set and an empty record sequence, expand_config returns
\* the empty list and raises nothing, whatever outputs is.
C5_EmptyData ==
    (Expanded /\ config.foreach # None /\ data # None /\ NumRecords = 0) =>
        expanded = Returned(<<>>)

\* empty data with two output specs
C5_Witness ==
    /\ Expanded /\ config.foreach # None /\ data = PyTuple(<<>>)
    /\ NumSpecs = 2
    /\ expanded = Returned(<<>>)

\* C6: with foreach set and data absent (None), expand_config raises the
\* ConfigError "foreach requires data" and returns nothing, with or without
\* output specs.
C6_ForeachRequiresData ==
    (Expanded /\ config.foreach # None /\ data = None) =>
        expanded = Raised("ConfigError", "foreach requires data")

\* data absent, with output specs
C6_Witness ==
    /\ Expanded /\ config.foreach # None /\ data = None /\ NumSpecs >= 1
    /\ expanded.kind = "error"

\* the result with the foreach field of the returned configs left out
WithoutForeach(outcome) ==
    IF outcome.kind = "ok"
    THEN Returned([i \in DOMAIN outcome.value |->
                      [outcome.value[i] EXCEPT !.foreach = None]])
    ELSE outcome

\* C7: the foreach axis is active iff config.foreach is a non-empty string:
\* a config whose foreach is the empty string is expanded as the same config
\* with foreach unset is (no fan-out per record, no "foreach requires data"
\* error, no binding in the context).
C7_EmptyForeachInactive ==
    (Expanded /\ config.foreach = PyStr(<<>>)) =>
        WithoutForeach(expanded)
            = expand_config([config EXCEPT !.foreach = None], outputs, data)

-----------------------------------------------------------------------------
(* load_data: the file at the path, and the shapes of its parsed content. *)

K_meta == <<"m", "e", "t", "a">>
K_data == <<"d", "a", "t", "a">>
K_records == <<"r", "e", "c", "o", "r", "d", "s">>
K_items == <<"i", "t", "e", "m", "s">>
K_results == <<"r", "e", "s", "u", "l", "t", "s">>

\* for key in ("data", "records", "items", "results")
DataKeys == <<K_data, K_records, K_items, K_results>>

\* LoadedData(raw, meta, has_meta)
LoadedData(raw, meta, has_meta) ==
    [raw |-> raw, meta |-> meta, has_meta |-> has_meta]

\* the aptoro test with the two type checks made part of it, so that a
\* mapping failing them goes on to the common keys
is_aptoro_well_typed(content) ==
    /\ DictHas(content, K_meta) /\ DictHas(content, K_data)
    /\ IsDict(DictGet(content, K_meta))
    /\ IsList(DictGet(content, K_data))

\* "meta" in content and "data" in content
is_aptoro(content) == DictHas(content, K_meta) /\ DictHas(content, K_data)

\* the common-keys loop stopping at the first key present, whatever its
\* value: a present key that holds no list is an error, not skipped
RECURSIVE common_keys_first_present(_, _)
common_keys_first_present(content, i) ==
    IF i > Len(DataKeys)
    THEN Raised("DataError", "Invalid JSON format")
    ELSE IF DictHas(content, DataKeys[i])
    THEN IF IsList(DictGet(content, DataKeys[i]))
         THEN Returned(LoadedData(PyTuple(DictGet(content, DataKeys[i]).v),
                                  PyDict(<<>>), FALSE))
         ELSE Raised("DataError", "Invalid JSON format")
    ELSE common_keys_first_present(content, i + 1)

\* the common-keys loop from DataKeys[i] on: the first key present with a
\* list value gives the records
RECURSIVE common_keys(_, _)
common_keys(content, i) ==
    IF i > Len(DataKeys)
    THEN Raised("DataError", "Invalid JSON format")
    ELSE IF DictHas(content, DataKeys[i])
            /\ IsList(DictGet(content, DataKeys[i]))
    THEN Returned(LoadedData(PyTuple(DictGet(content, DataKeys[i]).v),
                             PyDict(<<>>), FALSE))
    ELSE common_keys(content, i + 1)

\* load_data(path) for the file f found at path: f.state is "missing" (no
\* such file), "unreadable" (open or read raises OSError), "invalid"
\* (json.load raises JSONDecodeError) or "json" (f.content is the parsed
\* content)
load_data(f) ==
    IF f.state = "missing" THEN Raised("DataError", "Data file not found")
    ELSE IF f.state = "invalid" THEN Raised("DataError", "Invalid JSON")
    ELSE IF f.state = "unreadable" THEN Raised("DataError", "Cannot read")
    ELSE LET content == f.content
         IN  IF IsList(content)
             THEN Returned(LoadedData(PyTuple(content.v), PyDict(<<>>), FALSE))
             ELSE IF ~IsDict(content)
             THEN Raised("DataError", "Invalid JSON format")
             ELSE IF is_aptoro(content)
             THEN LET meta == DictGet(content, K_meta)
                      records == DictGet(content, K_data)
                  IN  IF ~IsDict(meta)
                      THEN Raised("DataError", "'meta' must be an object")
                      ELSE IF ~IsList(records)
                      THEN Raised("DataError", "'data' must be an array")
                      ELSE Returned(LoadedData(PyTuple(records.v), meta, TRUE))
             ELSE common_keys(content, 1)

-----------------------------------------------------------------------------
(* The specification of load_data. *)

Absent == [t |-> "absent"]

\* the pairs of a mapping, the absent keys left out
Present(pairs) == SelectSeq(pairs, LAMBDA kv : kv[2] # Absent)

Reverse(seq) == [i \in 1..Len(seq) |-> seq[Len(seq) + 1 - i]]

\* the mappings of a data file, with their keys in either order; each key
\* takes a few values, Absent for a key the mapping does not have
MappingContents ==
    UNION { LET pairs == Present(<< <<K_meta, m>>, <<K_data, d>>,
                                   <<K_records, r>>, <<K_items, i>>,
                                   <<K_results, u>> >>)
            IN  {PyDict(pairs), PyDict(Reverse(pairs))} :
            m \in {Absent, PyDict(<< <<<<"v">>, PyInt(1)>> >>), PyList(<<R_t>>)},
            d \in {Absent, PyList(<<R_x, R_7>>), PyList(<<>>), PyStr(<<"x">>)},
            r \in {Absent, PyList(<<R_7>>), PyInt(3)},
            i \in {Absent, PyList(<<R_t, R_x>>)},
            u \in {Absent, PyList(<<R_7, R_7>>)} }

\* the parsed contents: lists of records, the JSON scalars, mappings
Contents ==
    {PyList(rs) : rs \in SeqsUpTo(RecordPool, MaxRecords)}
        \cup {PyStr(<<"x">>), PyInt(1), None}
        \cup MappingContents

Files ==
    {[state |-> st, content |-> None] : st \in {"missing", "unreadable", "invalid"}}
        \cup {[state |-> "json", content |-> c] : c \in Contents}

InitData ==
    /\ pc = "call"
    /\ file \in Files
    /\ loaded = NotCalled
    /\ path_str = Unused /\ variables = Unused /\ interpolated = NotCalled
    /\ config = Unused /\ outputs = Unused /\ data = Unused
    /\ expanded = NotCalled
    /\ ConfigIdle /\ CookIdle /\ CliIdle /\ ObjectsIdle

CallLoadData ==
    /\ pc = "call"
    /\ loaded' = load_data(file)
    /\ pc' = "done"
    /\ UNCHANGED <<file, path_str, variables, interpolated, config, outputs,
                   data, expanded, cfg_file, batch, cookVars, cliVars,
                   objVars>>

NextData == CallLoadData

SpecData == InitData /\ [][NextData]_vars

-----------------------------------------------------------------------------
(* Claims about load_data, checked under SpecData. *)

\* load_data has been called on a file that parsed
Loaded == pc = "done" /\ file.state = "json"

\* C10: a content that is a list gives records = the list in its order,
\* metadata = {} and has_meta = FALSE; a mapping with both a "meta" and a
\* "data" key gives records = data, metadata = meta, has_meta = TRUE when
\* meta is a mapping and data a list, and a DataError otherwise, whatever
\* the keys data, records, items, results hold.
C10_ShapeOrder ==
    Loaded =>
        /\ IsList(file.content) =>
              /\ loaded.kind = "ok"
              /\ loaded.value.raw.v = file.content.v
              /\ loaded.value.meta = PyDict(<<>>)
              /\ loaded.value.has_meta = FALSE
        /\ (/\ IsDict(file.content)
            /\ K_meta \in DictKeys(file.content)
            /\ K_data \in DictKeys(file.content)) =>
              LET m == DictGet(file.content, K_meta)
                  d == DictGet(file.content, K_data)
              IN  IF IsDict(m) /\ IsList(d)
                  THEN /\ loaded.kind = "ok"
                       /\ loaded.value.raw.v = d.v
                       /\ loaded.value.meta = m
                       /\ loaded.value.has_meta = TRUE
                  ELSE loaded.kind = "error" /\ loaded.error = "DataError"

\* a mapping whose meta is not a mapping while data, records and items are
\* lists: rejected, not read through the common keys
C10_Witness ==
    /\ Loaded
    /\ IsDict(file.content)
    /\ is_aptoro(file.content)
    /\ ~IsDict(DictGet(file.content, K_meta))
    /\ IsList(DictGet(file.content, K_data))
    /\ DictHas(file.content, K_records)
    /\ IsList(DictGet(file.content, K_records))
    /\ loaded.kind = "error"

\* key is present in the mapping content and holds a list
HoldsList(content, key) ==
    key \in DictKeys(content) /\ IsList(DictGet(content, key))

\* the records the common keys give for content: those of "data" if it
\* holds a list, else of "records", else of "items", else of "results"
CommonRecords(content) ==
    IF HoldsList(content, K_data) THEN DictGet(content, K_data).v
    ELSE IF HoldsList(content, K_records) THEN DictGet(content, K_records).v
    ELSE IF HoldsList(content, K_items) THEN DictGet(content, K_items).v
    ELSE DictGet(content, K_results).v

\* C11: for a mapping that does not have both "meta" and "data", load_data
\* takes as records the value of the first of data, records, items, results
\* that is present and holds a list, with metadata = {} and has_meta =
\* FALSE; it raises a DataError when no key is such, and for a content that
\* is neither a list nor a mapping.
C11_CommonKeys ==
    Loaded =>
        /\ (/\ IsDict(file.content)
            /\ ~(K_meta \in DictKeys(file.content)
                    /\ K_data \in DictKeys(file.content))) =>
              IF \E key \in {K_data, K_records, K_items, K_results} :
                    HoldsList(file.content, key)
              THEN /\ loaded.kind = "ok"
                   /\ loaded.value.raw.v = CommonRecords(file.content)
                   /\ loaded.value.meta = PyDict(<<>>)
                   /\ loaded.value.has_meta = FALSE
              ELSE loaded.kind = "error" /\ loaded.error = "DataError"
        /\ (~IsList(file.content) /\ ~IsDict(file.content)) =>
              loaded.kind = "error" /\ loaded.error = "DataError"

\* "data" holds a str and is skipped, "records" and "items" both hold
\* lists: the records are those of "records"
C11_Witness ==
    /\ Loaded
    /\ IsDict(file.content)
    /\ ~DictHas(file.content, K_meta)
    /\ DictHas(file.content, K_data)
    /\ ~IsList(DictGet(file.content, K_data))
    /\ HoldsList(file.content, K_records)
    /\ HoldsList(file.content, K_items)
    /\ DictGet(file.content, K_records) # DictGet(file.content, K_items)
    /\ loaded.kind = "ok"
    /\ loaded.value.raw.v = DictGet(file.content, K_records).v

-----------------------------------------------------------------------------
(* config/loader.py: load_config, _parse_config and _parse_outputs.        *)
(* A raw mapping is the dict yaml.safe_load gives for the config file.     *)

K_input == <<"i", "n", "p", "u", "t">>
K_template == <<"t", "e", "m", "p", "l", "a", "t", "e">>
K_output == <<"o", "u", "t", "p", "u", "t">>
K_outputs == <<"o", "u", "t", "p", "u", "t", "s">>
K_format == <<"f", "o", "r", "m", "a", "t">>
K_template_dirs ==
    <<"t", "e", "m", "p", "l", "a", "t", "e", "_", "d", "i", "r", "s">>
K_context_file ==
    <<"c", "o", "n", "t", "e", "x", "t", "_", "f", "i", "l", "e">>
K_context == <<"c", "o", "n", "t", "e", "x", "t">>
K_foreach == <<"f", "o", "r", "e", "a", "c", "h">>
K_config == <<"c", "o", "n", "f", "i", "g">>

S_html == PyStr(<<"h", "t", "m", "l">>)
S_markdown == PyStr(<<"m", "a", "r", "k", "d", "o", "w", "n">>)
S_text == PyStr(<<"t", "e", "x", "t">>)

\* the tuple ("html", "markdown", "text") of the format test
FormatLiterals == {S_html, S_markdown, S_text}

RESERVED_FOREACH_NAMES == {PyStr(K_data), PyStr(K_meta), PyStr(K_config)}

\* dict.get(key, default)
DictGetOr(d, key, default) == IF DictHas(d, key) THEN DictGet(d, key) ELSE default

\* bool(x) for the values a raw mapping holds
Truthy(x) ==
    CASE x.t = "None" -> FALSE
      [] x.t = "int" -> x.v # 0
      [] OTHER -> Len(x.v) > 0

\* Path(x) raises TypeError unless x is a str
IsStr(x) == x.t = "str"

\* path.parent of a Path
PathParent(p) ==
    LET root == PathRoot(p.v)
        parts == PathParts(p.v)
    IN  IF Len(parts) = 0 THEN p
        ELSE IF Len(parts) = 1
             THEN (IF Len(root) = 0 THEN PyPath(<<".">>) ELSE PyPath(root))
             ELSE PyPath(root \o Join(SubSeq(parts, 1, Len(parts) - 1), "/"))

BatchConfig(cfg, outs) == [config |-> cfg, outputs |-> outs]

\* the loop of _parse_outputs from entry i on, specs being the list so far
RECURSIVE parse_outputs_loop(_, _, _)
parse_outputs_loop(raw_outputs, i, specs) ==
    IF i > Len(raw_outputs.v) THEN Returned(PyTuple(specs))
    ELSE LET entry == raw_outputs.v[i]
         IN  IF ~IsDict(entry)
             THEN Raised("ConfigError", "outputs[i] must be a mapping")
             ELSE IF ~DictHas(entry, K_output)
             THEN Raised("ConfigError", "outputs[i] must have 'output' field")
             ELSE LET td == DictGetOr(entry, K_template_dirs, None)
                      ctx == DictGetOr(entry, K_context, None)
                  IN  IF td # None /\ ~IsList(td)
                      THEN Raised("ConfigError",
                                  "outputs[i].template_dirs must be a list")
                      ELSE IF ctx # None /\ ~IsDict(ctx)
                      THEN Raised("ConfigError",
                                  "outputs[i].context must be a mapping")
                      ELSE parse_outputs_loop(raw_outputs, i + 1,
                             Append(specs,
                               OutputSpec(DictGet(entry, K_output),
                                          DictGetOr(entry, K_input, None),
                                          DictGetOr(entry, K_template, None),
                                          DictGetOr(entry, K_format, None),
                                          IF td = None THEN None
                                          ELSE PyTuple(td.v),
                                          DictGetOr(entry, K_context_file, None),
                                          ctx)))

\* _parse_outputs
parse_outputs(raw_outputs) ==
    IF ~IsList(raw_outputs)
    THEN Raised("ConfigError", "'outputs' must be a list")
    ELSE parse_outputs_loop(raw_outputs, 1, <<>>)

\* the exclusivity test left out
exclusive_violation_never(has_output, has_outputs_key) == FALSE

\* if has_output and has_outputs: raise
exclusive_violation(has_output, has_outputs_key) == has_output /\ has_outputs_key

\* the Config that _parse_config builds once every test has passed
parsed_config(raw, base_path) ==
    [input |-> PathOf(DictGet(raw, K_input).v),
     template |-> PathOf(DictGet(raw, K_template).v),
     output |-> IF DictHas(raw, K_output)
                THEN PathOf(DictGet(raw, K_output).v) ELSE PathOf(<<".">>),
     format |-> DictGetOr(raw, K_format, None),
     template_dirs |-> PathsOf(DictGetOr(raw, K_template_dirs, PyList(<<>>))),
     context_file |-> IF Truthy(DictGetOr(raw, K_context_file, None))
                      THEN PathOf(DictGet(raw, K_context_file).v) ELSE None,
     context |-> DictGetOr(raw, K_context, None),
     base_path |-> base_path,
     foreach |-> DictGetOr(raw, K_foreach, None)]

\* the Path(...) calls that build the Config get a value that is not a str
path_type_error(raw) ==
    \/ DictHas(raw, K_output) /\ ~IsStr(DictGet(raw, K_output))
    \/ ~IsStr(DictGet(raw, K_input))
    \/ ~IsStr(DictGet(raw, K_template))
    \/ /\ Truthy(DictGetOr(raw, K_context_file, None))
       /\ ~IsStr(DictGet(raw, K_context_file))

\* _parse_config
parse_config(raw, base_path) ==
    LET has_output == DictHas(raw, K_output)
        has_outputs_key == DictHas(raw, K_outputs)
        template_dirs_raw == DictGetOr(raw, K_template_dirs, PyList(<<>>))
        format_value == DictGetOr(raw, K_format, None)
        ctx == DictGetOr(raw, K_context, None)
        foreach == DictGetOr(raw, K_foreach, None)
        output_specs == IF has_outputs_key
                        THEN parse_outputs(DictGet(raw, K_outputs))
                        ELSE Returned(None)
    IN  IF ~DictHas(raw, K_input)
        THEN Raised("ConfigError", "Config must have 'input' field")
        ELSE IF ~DictHas(raw, K_template)
        THEN Raised("ConfigError", "Config must have 'template' field")
        ELSE IF exclusive_violation(has_output, has_outputs_key)
        THEN Raised("ConfigError", "'output' and 'outputs' are mutually exclusive")
        ELSE IF ~has_output /\ ~has_outputs_key
        THEN Raised("ConfigError", "Config must have 'output' or 'outputs' field")
        ELSE IF ~IsList(template_dirs_raw)
        THEN Raised("ConfigError", "'template_dirs' must be a list")
        ELSE IF \E i \in DOMAIN template_dirs_raw.v : ~IsStr(template_dirs_raw.v[i])
        THEN Raised("TypeError", "expected str, bytes or os.PathLike object")
        ELSE IF format_value # None /\ format_value \notin FormatLiterals
        THEN Raised("ConfigError", "Invalid format")
        ELSE IF ctx # None /\ ~IsDict(ctx)
        THEN Raised("ConfigError", "'context' must be a mapping")
        ELSE IF foreach # None /\ ~IsStr(foreach)
        THEN Raised("ConfigError", "'foreach' must be a string")
        ELSE IF foreach # None /\ foreach \in RESERVED_FOREACH_NAMES
        THEN Raised("ConfigError", "'foreach' variable name is reserved")
        ELSE IF output_specs.kind = "error" THEN output_specs
        ELSE IF path_type_error(raw)
        THEN Raised("TypeError", "expected str, bytes or os.PathLike object")
        ELSE Returned(BatchConfig(parsed_config(raw, base_path),
                                  output_specs.value))

\* load_config: f is the file at f.path
load_config(f) ==
    IF f.state = "missing"
    THEN Raised("ConfigError", "Config file not found")
    ELSE IF f.state = "invalid"
    THEN Raised("ConfigError", "Invalid YAML in config file")
    ELSE IF f.state = "unreadable"
    THEN Raised("ConfigError", "Cannot read config file")
    ELSE IF ~IsDict(f.content)
    THEN Raised("ConfigError", "Config file must contain a YAML mapping")
    ELSE parse_config(f.content, PathParent(f.path))

-----------------------------------------------------------------------------
(* The specification of load_config, followed by expand_config on the     *)
(* loaded BatchConfig.                                                     *)

\* two well-formed entries of an outputs list
E_p == PyDict(<< <<K_output, PyStr(<<"p">>)>> >>)
E_q ==
    PyDict(<< <<K_output, PyStr(<<"q", "/", "{", "a", ".", "s", "}">>)>>,
              <<K_format, S_markdown>>,
              <<K_context, PyDict(<< <<K_k, PyInt(9)>> >>)>> >>)

\* the mappings a config file parses to: every key is absent or takes one of
\* a few values, well-formed and not (Absent marks a key the mapping does
\* not have). The outputs values are a string, the empty list, and lists
\* with a non-mapping entry, an entry without output, a single entry, an
\* entry with format "pdf", two entries, an entry whose template_dirs is no
\* list, and an entry whose context is no mapping.
RawMappings ==
    { PyDict(Present(<< <<K_input, i>>, <<K_template, t>>, <<K_output, o>>,
                        <<K_outputs, os>>, <<K_format, f>>, <<K_foreach, fe>>,
                        <<K_context, c>>, <<K_template_dirs, td>>,
                        <<K_context_file, cf>> >>)) :
      i \in {Absent, PyStr(<<"i">>), PyInt(42)},
      t \in {Absent, PyStr(<<"t">>)},
      o \in {Absent, PyStr(<<"o">>)},
      os \in {Absent, PyStr(<<"x">>), PyList(<<>>), PyList(<<PyStr(<<"p">>)>>),
              PyList(<<PyDict(<< <<K_context, PyDict(<< <<K_k, PyInt(9)>> >>)>> >>)>>),
              PyList(<<E_p>>),
              PyList(<<PyDict(<< <<K_output, PyStr(<<"p">>)>>,
                                 <<K_format, PyStr(<<"p", "d", "f">>)>> >>)>>),
              PyList(<<E_q, E_p>>),
              PyList(<<PyDict(<< <<K_output, PyStr(<<"p">>)>>,
                                 <<K_template_dirs, PyStr(<<"d">>)>> >>)>>),
              PyList(<<E_p, PyDict(<< <<K_output, PyStr(<<"r">>)>>,
                                      <<K_context, PyInt(5)>> >>)>>)},
      f \in {Absent, S_html, PyStr(<<"p", "d", "f">>)},
      fe \in {Absent, PyInt(42), PyStr(<<>>), PyStr(K_data), PyStr(K_meta),
              PyStr(K_config), PyStr(K_a)},
      c \in {Absent, PyInt(5), PyDict(<< <<K_a, PyInt(1)>>, <<K_k, PyInt(2)>> >>)},
      td \in {Absent, PyStr(<<"d">>), PyList(<<PyStr(<<"d">>)>>)},
      cf \in {Absent, PyStr(<<"c">>)} }

\* the file at the config path, which is "k" or "b/k"
ConfigFiles ==
    {[path |-> p, state |-> st, content |-> c] :
        p \in {PathOf(<<"k">>), PathOf(<<"b", "/", "k">>)},
        st \in {"missing", "unreadable", "invalid"}, c \in {None}}
    \cup {[path |-> p, state |-> "yaml", content |-> c] :
        p \in {PathOf(<<"k">>), PathOf(<<"b", "/", "k">>)},
        c \in {None, PyStr(<<"x">>), PyList(<<>>)} \cup RawMappings}

InitConfig ==
    /\ pc = "call"
    /\ cfg_file \in ConfigFiles
    /\ batch = NotCalled
    /\ path_str = Unused /\ variables = Unused /\ interpolated = NotCalled
    /\ config = Unused /\ outputs = Unused /\ data = Unused
    /\ expanded = NotCalled
    /\ file = Unused /\ loaded = NotCalled
    /\ CookIdle /\ CliIdle /\ ObjectsIdle

CallLoadConfig ==
    /\ pc = "call"
    /\ batch' = load_config(cfg_file)
    /\ pc' = "parsed"
    /\ UNCHANGED <<cfg_file, path_str, variables, interpolated, config, outputs,
                   data, expanded, file, loaded, cookVars, cliVars, objVars>>

\* expand_config(batch.config, outputs=batch.outputs, data=records), the
\* records being none, one, or two of which the last has no "s"
CallExpandLoaded ==
    /\ pc = "parsed"
    /\ batch.kind = "ok"
    /\ config' = batch.value.config
    /\ outputs' = batch.value.outputs
    /\ data' \in {PyTuple(<<>>), PyTuple(<<R_x>>), PyTuple(<<R_7, R_t>>)}
    /\ expanded' = expand_config(config', outputs', data')
    /\ pc' = "expanded"
    /\ UNCHANGED <<cfg_file, batch, path_str, variables, interpolated, file,
                   loaded, cookVars, cliVars, objVars>>

NextConfig == CallLoadConfig \/ CallExpandLoaded

SpecConfig == InitConfig /\ [][NextConfig]_vars

-----------------------------------------------------------------------------
(* Claims about load_config, checked under SpecConfig. *)

\* load_config has been called on cfg_file
ConfigLoaded == pc \in {"parsed", "expanded"}

\* the config file parses to a mapping
HoldsMapping == cfg_file.state = "yaml" /\ IsDict(cfg_file.content)

\* the mapping of the config file has the key
RawHas(key) == DictHas(cfg_file.content, key)

\* load_config returned a BatchConfig / raised a ConfigError
Accepted == batch.kind = "ok"
Rejected == batch.kind = "error" /\ batch.error = "ConfigError"

\* 'input' and 'template' are there, and exactly one of 'output', 'outputs'
WellKeyed ==
    /\ RawHas(K_input) /\ RawHas(K_template)
    /\ RawHas(K_output) # RawHas(K_outputs)

\* C12: load_config accepts a mapping only if it has 'input', 'template' and
\* exactly one of 'output' and 'outputs'; a mapping with both, with neither,
\* or without 'input' or 'template' is rejected with a ConfigError and no
\* BatchConfig is returned.
C12_RequiredKeys ==
    ConfigLoaded /\ HoldsMapping =>
        /\ Accepted => WellKeyed
        /\ ~WellKeyed => Rejected

\* a mapping with input, template, output and a well-formed outputs list is
\* rejected for having both
C12_Witness ==
    /\ ConfigLoaded /\ HoldsMapping
    /\ RawHas(K_input) /\ RawHas(K_template)
    /\ RawHas(K_output) /\ RawHas(K_outputs)
    /\ DictGet(cfg_file.content, K_outputs) = PyList(<<E_p>>)
    /\ batch = Raised("ConfigError", "'output' and 'outputs' are mutually exclusive")

\* the value the mapping of the config file has at the key
RawValue(key) == DictGet(cfg_file.content, key)

\* a non-empty list of mappings each of which has an 'output' field
WellFormedOutputs(x) ==
    /\ IsList(x) /\ Len(x.v) > 0
    /\ \A i \in DOMAIN x.v : IsDict(x.v[i]) /\ DictHas(x.v[i], K_output)

\* C13: load_config accepts an 'outputs' value only when it is a non-empty
\* list of mappings each with an 'output' field; any other 'outputs' value is
\* rejected with a ConfigError, so every BatchConfig loaded from an 'outputs'
\* config carries at least one OutputSpec.
C13_OutputsNonEmpty ==
    ConfigLoaded /\ HoldsMapping /\ RawHas(K_outputs) =>
        /\ ~WellFormedOutputs(RawValue(K_outputs)) => Rejected
        /\ Accepted => /\ batch.value.outputs # None
                       /\ Len(batch.value.outputs.v) >= 1

\* C14: load_config rejects with a ConfigError a 'foreach' value that is not
\* a string, is the empty string, or is one of data, meta, config; any other
\* string is stored unchanged as Config.foreach.
C14_ForeachValidated ==
    ConfigLoaded /\ HoldsMapping /\ RawHas(K_foreach) =>
        /\ ( \/ ~IsStr(RawValue(K_foreach))
             \/ RawValue(K_foreach) = PyStr(<<>>)
             \/ RawValue(K_foreach) \in RESERVED_FOREACH_NAMES ) => Rejected
        /\ Accepted => batch.value.config.foreach = RawValue(K_foreach)

\* a format that is unset or one of the three literals
ValidFormat(f) == f = None \/ f \in FormatLiterals

\* the mapping gives a format outside the literals, at top level or inside
\* an entry of a well-formed outputs list
GivesInvalidFormat ==
    \/ RawHas(K_format) /\ ~ValidFormat(RawValue(K_format))
    \/ /\ RawHas(K_outputs) /\ WellFormedOutputs(RawValue(K_outputs))
       /\ \E i \in DOMAIN RawValue(K_outputs).v :
              /\ DictHas(RawValue(K_outputs).v[i], K_format)
              /\ ~ValidFormat(DictGet(RawValue(K_outputs).v[i], K_format))

\* C15: every Config that exists after load_config and expand_config has a
\* format that is unset or one of html, markdown, text; a config file giving
\* another format, at top level or inside an outputs entry, is rejected with
\* a ConfigError.
C15_FormatLiteral ==
    /\ ConfigLoaded /\ Accepted => ValidFormat(batch.value.config.format)
    /\ pc = "expanded" /\ expanded.kind = "ok" =>
           \A i \in DOMAIN expanded.value : ValidFormat(expanded.value[i].format)
    /\ ConfigLoaded /\ HoldsMapping /\ GivesInvalidFormat => Rejected

-----------------------------------------------------------------------------
(* config/types.py: the Config methods cook uses. *)

\* base / path for two Paths
PathJoin(base, path) ==
    LET root == PathRoot(base.v)
        parts == PathParts(base.v) \o PathParts(path.v)
    IN  IF Len(root) = 0 /\ Len(parts) = 0 THEN PyPath(<<".">>)
        ELSE PyPath(root \o Join(parts, "/"))

\* path.is_absolute()
IsAbsolute(path) == Len(PathRoot(path.v)) > 0

\* path.name: the last component, "" when there is none
PathName(path) ==
    LET parts == PathParts(path.v)
    IN  IF Len(parts) = 0 THEN <<>> ELSE parts[Len(parts)]

\* s.rfind(ch) + 1: the last position of ch in s, 0 when it is not there
RFind(s, ch) ==
    IF \E i \in DOMAIN s : s[i] = ch
    THEN CHOOSE i \in DOMAIN s : s[i] = ch /\ \A j \in DOMAIN s : s[j] = ch => j <= i
    ELSE 0

\* path.stem: the name without its last suffix; a name that starts or ends
\* with its only dot has no suffix
PathStem(path) ==
    LET name == PathName(path)
        i == RFind(name, ".")
    IN  IF 1 < i /\ i < Len(name) THEN SubSeq(name, 1, i - 1) ELSE name

\* s.endswith(suffix)
EndsWith(s, suffix) ==
    /\ Len(s) >= Len(suffix)
    /\ SubSeq(s, Len(s) - Len(suffix) + 1, Len(s)) = suffix

\* Config.get_format
get_format(cfg) ==
    IF Truthy(cfg.format) THEN cfg.format
    ELSE IF EndsWith(PathStem(cfg.template), <<".", "h", "t", "m", "l">>)
    THEN S_html
    ELSE IF EndsWith(PathStem(cfg.template), <<".", "m", "d">>)
    THEN S_markdown
    ELSE S_text

\* Config.resolve_path: a Path is always truthy, so base_path is used
\* whenever it is not None
resolve_path(cfg, path) ==
    IF IsAbsolute(path) THEN path
    ELSE IF cfg.base_path # None THEN PathJoin(cfg.base_path, path)
    ELSE path

\* the output path left as given, not resolved against base_path
unresolved_output(cfg) == cfg.output

resolved_input(cfg) == resolve_path(cfg, cfg.input)
resolved_template(cfg) == resolve_path(cfg, cfg.template)
resolved_output(cfg) == resolve_path(cfg, cfg.output)

resolved_context_file(cfg) ==
    IF cfg.context_file # None THEN resolve_path(cfg, cfg.context_file) ELSE None

resolved_template_dirs(cfg) ==
    PyTuple([i \in DOMAIN cfg.template_dirs.v |->
                resolve_path(cfg, cfg.template_dirs.v[i])])

-----------------------------------------------------------------------------
(* kodudo/__init__.py and rendering/renderer.py: cook, cook_from_config,   *)
(* _cook_single, _load_context_file and render.                            *)

\* the overrides with the context override replacing the config's context
apply_overrides_replacing(cfg, ctx, out) ==
    LET c1 == IF out # None THEN [cfg EXCEPT !.output = PathOf(out.v)] ELSE cfg
    IN  IF ctx # None THEN [c1 EXCEPT !.context = ctx] ELSE c1

\* cook_from_config's call-site overrides: replace(config, **overrides)
apply_overrides(cfg, ctx, out) ==
    LET c1 == IF out # None THEN [cfg EXCEPT !.output = PathOf(out.v)] ELSE cfg
    IN  IF ctx # None
        THEN [c1 EXCEPT !.context = DictUpdate(OrEmptyDict(cfg.context), ctx)]
        ELSE c1

\* _load_context_file with an empty file rejected as not a mapping
load_context_file_empty_fails(f) ==
    IF f.state = "missing"
    THEN Raised("ConfigError", "Context file not found")
    ELSE IF f.state = "invalid"
    THEN Raised("ConfigError", "Invalid YAML in context file")
    ELSE IF f.state = "unreadable"
    THEN Raised("ConfigError", "Cannot read context file")
    ELSE IF ~IsDict(f.content)
    THEN Raised("ConfigError", "Context file must contain a YAML mapping")
    ELSE Returned(f.content)

\* _load_context_file with a missing file read as the empty mapping
load_context_file_missing_empty(f) ==
    IF f.state = "missing" THEN Returned(PyDict(<<>>))
    ELSE IF f.state = "invalid"
    THEN Raised("ConfigError", "Invalid YAML in context file")
    ELSE IF f.state = "unreadable"
    THEN Raised("ConfigError", "Cannot read context file")
    ELSE IF f.content = None THEN Returned(PyDict(<<>>))
    ELSE IF ~IsDict(f.content)
    THEN Raised("ConfigError", "Context file must contain a YAML mapping")
    ELSE Returned(f.content)

\* _load_context_file(path) for the file f found at path
load_context_file(f) ==
    IF f.state = "missing"
    THEN Raised("ConfigError", "Context file not found")
    ELSE IF f.state = "invalid"
    THEN Raised("ConfigError", "Invalid YAML in context file")
    ELSE IF f.state = "unreadable"
    THEN Raised("ConfigError", "Cannot read context file")
    ELSE IF f.content = None THEN Returned(PyDict(<<>>))
    ELSE IF ~IsDict(f.content)
    THEN Raised("ConfigError", "Context file must contain a YAML mapping")
    ELSE Returned(f.content)

\* the context file applied over the inline context
merge_context_file_last(file_context, inline) ==
    IF Truthy(inline) THEN DictUpdate(inline, file_context) ELSE file_context

\* if config.context: context.update(config.context)
merge_context(file_context, inline) ==
    IF Truthy(inline) THEN DictUpdate(file_context, inline) ELSE file_context

\* the context assembly of _cook_single, f being the file at the context path
assemble_context(cfg, f) ==
    IF resolved_context_file(cfg) # None
    THEN LET file_context == load_context_file(f)
         IN  IF file_context.kind = "error" THEN file_context
             ELSE Returned(merge_context(file_context.value, cfg.context))
    ELSE Returned(merge_context(PyDict(<<>>), cfg.context))

\* config_dict of _cook_single
config_dict(cfg) ==
    PyDict(<< <<K_input, PyStr(resolved_input(cfg).v)>>,
              <<K_output, PyStr(resolved_output(cfg).v)>>,
              <<K_format, get_format(cfg)>> >>)

\* template_vars of render: the reserved variables, then the context
template_vars(records, meta, cfg_dict, ctx) ==
    LET reserved == PyDict(<< <<K_data, PyList(records.v)>>, <<K_meta, meta>>,
                              <<K_config, cfg_dict>> >>)
    IN  IF Truthy(ctx) THEN DictUpdate(reserved, ctx) ELSE reserved

\* the text template.render(**template_vars) gives: what the template named
\* template_name, looked up in template_dirs, makes of the variables
Rendered(template_name, template_dirs, tvars) ==
    [t |-> "text", template |-> template_name, template_dirs |-> template_dirs,
     vars |-> tvars]

\* output_path.write_text(text) on the files d: the file at path is created
\* or truncated, and holds text afterwards
write_text_keeping(d, path, text) ==
    [p \in DOMAIN d \cup {path} |-> IF p \in DOMAIN d THEN d[p] ELSE text]

write_text(d, path, text) ==
    [p \in DOMAIN d \cup {path} |-> IF p = path THEN text ELSE d[p]]

\* the text _cook_single renders for cfg with the merged context ctx
render_single(cfg, ld, ctx) ==
    Rendered(PathName(resolved_template(cfg)),
             <<PathParent(resolved_template(cfg))>>
                 \o resolved_template_dirs(cfg).v,
             template_vars(ld.raw, ld.meta, config_dict(cfg), ctx))

-----------------------------------------------------------------------------
(* The specification of cook and cook_from_config. A behaviour starts at    *)
(* cook (pc = "cook", a config file is given) or at cook_from_config       *)
(* (pc = "cook_from_config", a Config is given) and goes on step by step:  *)
(* load the data, expand, then for each expanded config assemble the       *)
(* context, render, create the output directory and write the file.        *)
(* Rendering, mkdir and write_text each succeed or fail as the templates   *)
(* and the file system decide; a failing mkdir or write_text changes       *)
(* nothing on disk.                                                        *)

\* the configs given to cook_from_config. Template, format, template_dirs
\* and base_path come in three shapes: "t.md.j" under base "b"; "t" with no
\* base; "s/t.html.j" with format "text", template_dirs ("d",) and base "b".
\* One more config is built with foreach="data"
CookConfigs ==
    { [input |-> PathOf(<<"i">>), template |-> PathOf(sh.template),
       output |-> PathOf(o), format |-> sh.format,
       template_dirs |-> sh.template_dirs, context_file |-> cf, context |-> c,
       base_path |-> sh.base_path, foreach |-> f] :
      sh \in { [template |-> <<"t", ".", "m", "d", ".", "j">>, format |-> None,
                template_dirs |-> PyTuple(<<>>), base_path |-> PathOf(<<"b">>)],
               [template |-> <<"t">>, format |-> None,
                template_dirs |-> PyTuple(<<>>), base_path |-> None],
               [template |-> <<"s", "/", "t", ".", "h", "t", "m", "l", ".", "j">>,
                format |-> S_text,
                template_dirs |-> PyTuple(<<PathOf(<<"d">>)>>),
                base_path |-> PathOf(<<"b">>)] },
      o \in {<<"o">>, <<"x", "/", "{", "a", ".", "s", "}">>},
      c \in { None, PyDict(<< <<K_a, PyInt(1)>>, <<K_k, PyInt(2)>> >>),
              PyDict(<< <<K_k, PyInt(2)>>, <<K_data, PyInt(0)>> >>) },
      cf \in {None, PathOf(<<"/", "c">>)}, f \in {None, PyStr(K_a)} }
    \cup { [input |-> PathOf(<<"i">>), template |-> PathOf(<<"t">>),
            output |-> PathOf(<<"o">>), format |-> None,
            template_dirs |-> PyTuple(<<>>), context_file |-> None,
            context |-> None, base_path |-> None, foreach |-> PyStr(K_data)] }

\* None; (OutputSpec("p"),); and (OutputSpec("q/{a.s}", context={"k": 9,
\* "l": 3}), OutputSpec("/r/{a.s}", input="j", template="u",
\* format="markdown", context_file="/c"))
CookOutputs ==
    { None,
      PyTuple(<<OutputSpec(PyStr(<<"p">>), None, None, None, None, None, None)>>),
      PyTuple(<<OutputSpec(PyStr(<<"q", "/", "{", "a", ".", "s", "}">>), None,
                           None, None, None, None,
                           PyDict(<< <<K_k, PyInt(9)>>, <<K_l, PyInt(3)>> >>)),
                OutputSpec(PyStr(<<"/", "r", "/", "{", "a", ".", "s", "}">>),
                           PyStr(<<"j">>), PyStr(<<"u">>), S_markdown, None,
                           PyStr(<<"/", "c">>), None)>>) }

\* the data file at the resolved input path
CookDataFiles ==
    { [state |-> "missing", content |-> None],
      [state |-> "json", content |-> PyList(<<>>)],
      [state |-> "json", content |-> PyList(<<R_x>>)],
      [state |-> "json", content |-> PyList(<<R_x, R_7>>)],
      [state |-> "json", content |-> PyList(<<R_7, R_t>>)],
      [state |-> "json",
       content |-> PyDict(<< <<K_meta, PyDict(<< <<<<"v">>, PyInt(1)>> >>)>>,
                             <<K_data, PyList(<<R_x>>)>> >>)] }

\* the file at the context-file path "/c"
ContextFiles ==
    {[state |-> st, content |-> None] : st \in {"missing", "unreadable", "invalid"}}
    \cup {[state |-> "yaml", content |-> c] :
            c \in { None, PyList(<<>>),
                    PyDict(<< <<K_a, PyInt(5)>>, <<<<"z">>, PyInt(6)>>,
                              <<K_meta, PyInt(0)>> >>) }}

\* the file at the config path "b/k" given to cook: missing, or one of four
\* mappings (output with context file and context; outputs with foreach;
\* output and outputs both; outputs with the entry format "pdf")
CookConfigFiles ==
    { [path |-> PathOf(<<"b", "/", "k">>), state |-> "missing", content |-> None] }
    \cup {[path |-> PathOf(<<"b", "/", "k">>), state |-> "yaml", content |-> c] :
            c \in { PyDict(<< <<K_input, PyStr(<<"i">>)>>,
                              <<K_template, PyStr(<<"t">>)>>,
                              <<K_output, PyStr(<<"o">>)>>,
                              <<K_context_file, PyStr(<<"/", "c">>)>>,
                              <<K_context, PyDict(<< <<K_a, PyInt(1)>> >>)>> >>),
                    PyDict(<< <<K_input, PyStr(<<"i">>)>>,
                              <<K_template, PyStr(<<"t">>)>>,
                              <<K_outputs, PyList(<<E_q, E_p>>)>>,
                              <<K_foreach, PyStr(K_a)>> >>),
                    PyDict(<< <<K_input, PyStr(<<"i">>)>>,
                              <<K_template, PyStr(<<"t">>)>>,
                              <<K_output, PyStr(<<"o">>)>>,
                              <<K_outputs, PyList(<<E_p>>)>> >>),
                    PyDict(<< <<K_input, PyStr(<<"i">>)>>,
                              <<K_template, PyStr(<<"t">>)>>,
                              <<K_outputs,
                                PyList(<<PyDict(<< <<K_output, PyStr(<<"p">>)>>,
                                                   <<K_format,
                                                     PyStr(<<"p", "d", "f">>)>> >>)>>)>> >>) }}

\* the files that exist under the output paths before the call: an old
\* file at "o" and one at "b/o"
ExistingFiles ==
    [p \in {PathOf(<<"o">>), PathOf(<<"b", "/", "o">>)} |-> [t |-> "old"]]

\* nothing is loaded, expanded, rendered or written yet; cook is given a
\* config file, cook_from_config a Config, outputs and its two overrides
InitCook ==
    /\ file \in CookDataFiles
    /\ ctx_file \in ContextFiles
    /\ batch = NotCalled /\ loaded = NotCalled /\ expanded = NotCalled
    /\ data = Unused /\ job = 0 /\ cook_context = Unused /\ result = Unused
    /\ mkdirs = <<>> /\ writes = <<>> /\ result_paths = <<>>
    /\ disk = ExistingFiles
    /\ cooked = NotCalled
    /\ path_str = Unused /\ variables = Unused /\ interpolated = NotCalled
    /\ CliIdle /\ ObjectsIdle
    /\ \/ /\ pc = "cook"
          /\ cfg_file \in CookConfigFiles
          /\ config = Unused /\ outputs = Unused
          /\ context_override = None /\ output_override = None
       \/ /\ pc = "cook_from_config"
          /\ cfg_file = Unused
          /\ config \in CookConfigs
          /\ outputs \in CookOutputs
          /\ context_override \in
                 {None, PyDict(<< <<K_k, PyInt(7)>>, <<<<"z">>, PyInt(1)>> >>)}
          /\ output_override \in {None, PyStr(<<"v">>)}

\* the config cook_from_config works with once its overrides are applied
Overridden == apply_overrides(config, context_override, output_override)

\* the expanded config _cook_single is cooking
CurrentConfig == expanded.value[job]

\* cook: batch = load_config(config_path), then cook_from_config
CallCook ==
    /\ pc = "cook"
    /\ batch' = load_config(cfg_file)
    /\ IF batch'.kind = "error"
       THEN /\ cooked' = batch'
            /\ pc' = "raised"
            /\ UNCHANGED <<config, outputs>>
       ELSE /\ config' = batch'.value.config
            /\ outputs' = batch'.value.outputs
            /\ pc' = "cook_from_config"
            /\ UNCHANGED cooked
    /\ UNCHANGED <<cfg_file, file, ctx_file, loaded, data, expanded,
                   context_override, output_override, job, cook_context,
                   result, mkdirs, writes, disk, result_paths, path_str,
                   variables, interpolated, cliVars, objVars>>

\* cook_from_config up to load_data(config.resolved_input)
CookLoadData ==
    /\ pc = "cook_from_config"
    /\ loaded' = load_data(file)
    /\ IF loaded'.kind = "error"
       THEN cooked' = loaded' /\ pc' = "raised"
       ELSE pc' = "expand" /\ UNCHANGED cooked
    /\ UNCHANGED <<cfg_file, batch, config, outputs, file, ctx_file, data,
                   expanded, context_override, output_override, job,
                   cook_context, result, mkdirs, writes, disk, result_paths,
                   path_str, variables, interpolated, cliVars, objVars>>

\* expanded = expand_config(config, outputs=outputs, data=loaded.raw)
CookExpand ==
    /\ pc = "expand"
    /\ data' = loaded.value.raw
    /\ expanded' = expand_config(Overridden, outputs, data')
    /\ IF expanded'.kind = "error"
       THEN cooked' = expanded' /\ pc' = "raised" /\ UNCHANGED job
       ELSE job' = 1 /\ pc' = "loop" /\ UNCHANGED cooked
    /\ UNCHANGED <<cfg_file, batch, config, outputs, file, ctx_file, loaded,
                   context_override, output_override, cook_context, result,
                   mkdirs, writes, disk, result_paths, path_str, variables,
                   interpolated, cliVars, objVars>>

\* the loop over expanded is exhausted: return result_paths
CookReturn ==
    /\ pc = "loop"
    /\ job > Len(expanded.value)
    /\ cooked' = Returned(result_paths)
    /\ pc' = "returned"
    /\ UNCHANGED <<cfg_file, batch, config, outputs, file, ctx_file, loaded,
                   data, expanded, context_override, output_override, job,
                   cook_context, result, mkdirs, writes, disk, result_paths,
                   path_str, variables, interpolated, cliVars, objVars>>

\* _cook_single: merge the context from the context file and the config
CookContext ==
    /\ pc = "loop"
    /\ job <= Len(expanded.value)
    /\ LET assembled == assemble_context(CurrentConfig, ctx_file)
       IN  IF assembled.kind = "error"
           THEN cooked' = assembled /\ pc' = "raised" /\ UNCHANGED cook_context
           ELSE cook_context' = assembled.value /\ pc' = "render"
                /\ UNCHANGED cooked
    /\ UNCHANGED <<cfg_file, batch, config, outputs, file, ctx_file, loaded,
                   data, expanded, context_override, output_override, job,
                   result, mkdirs, writes, disk, result_paths, path_str,
                   variables, interpolated, cliVars, objVars>>

\* _cook_single: render the template, or fail with a RenderError
CookRender ==
    /\ pc = "render"
    /\ \E ok \in BOOLEAN :
          IF ok
          THEN /\ result' = render_single(CurrentConfig, loaded.value, cook_context)
               /\ pc' = "mkdir"
               /\ UNCHANGED cooked
          ELSE /\ cooked' = Raised("RenderError", "Render failed")
               /\ pc' = "raised"
               /\ UNCHANGED result
    /\ UNCHANGED <<cfg_file, batch, config, outputs, file, ctx_file, loaded,
                   data, expanded, context_override, output_override, job,
                   cook_context, mkdirs, writes, disk, result_paths, path_str,
                   variables, interpolated, cliVars, objVars>>

\* _cook_single: output_path.parent.mkdir(parents=True, exist_ok=True)
CookMkdir ==
    /\ pc = "mkdir"
    /\ \E ok \in BOOLEAN :
          IF ok
          THEN /\ mkdirs' = Append(mkdirs, PathParent(resolved_output(CurrentConfig)))
               /\ pc' = "write"
               /\ UNCHANGED cooked
          ELSE /\ cooked' = Raised("OSError", "mkdir failed")
               /\ pc' = "raised"
               /\ UNCHANGED mkdirs
    /\ UNCHANGED <<cfg_file, batch, config, outputs, file, ctx_file, loaded,
                   data, expanded, context_override, output_override, job,
                   cook_context, result, writes, disk, result_paths, path_str,
                   variables, interpolated, cliVars, objVars>>

\* _cook_single: output_path.write_text(result), return output_path; then
\* cook_from_config: result_paths.append(output_path) and the next config
CookWrite ==
    /\ pc = "write"
    /\ \E ok \in BOOLEAN :
          IF ok
          THEN /\ writes' = Append(writes, [path |-> resolved_output(CurrentConfig),
                                            text |-> result])
               /\ disk' = write_text(disk, resolved_output(CurrentConfig), result)
               /\ result_paths' = Append(result_paths, resolved_output(CurrentConfig))
               /\ job' = job + 1
               /\ pc' = "loop"
               /\ UNCHANGED cooked
          ELSE /\ cooked' = Raised("OSError", "write_text failed")
               /\ pc' = "raised"
               /\ UNCHANGED <<writes, disk, result_paths, job>>
    /\ UNCHANGED <<cfg_file, batch, config, outputs, file, ctx_file, loaded,
                   data, expanded, context_override, output_override,
                   cook_context, result, mkdirs, path_str, variables,
                   interpolated, cliVars, objVars>>

NextCook ==
    \/ CallCook
    \/ CookLoadData
    \/ CookExpand
    \/ CookReturn
    \/ CookContext
    \/ CookRender
    \/ CookMkdir
    \/ CookWrite

SpecCook == InitCook /\ [][NextCook]_vars

-----------------------------------------------------------------------------
(* Claims about cook and cook_from_config, checked under SpecCook. *)

\* the current job has been rendered and its text is about to be written
JobRendered == pc \in {"mkdir", "write"}

\* the three layers of the current job's variables
ReservedLayer ==
    PyDict(<< <<K_data, PyList(loaded.value.raw.v)>>,
              <<K_meta, loaded.value.meta>>,
              <<K_config,
                PyDict(<< <<K_input, PyStr(resolve_path(CurrentConfig,
                                               CurrentConfig.input).v)>>,
                          <<K_output, PyStr(resolve_path(CurrentConfig,
                                                CurrentConfig.output).v)>>,
                          <<K_format, get_format(CurrentConfig)>> >>)>> >>)

FileLayer ==
    IF CurrentConfig.context_file # None /\ ctx_file.content # None
    THEN ctx_file.content ELSE PyDict(<<>>)

InlineLayer ==
    IF CurrentConfig.context # None THEN CurrentConfig.context ELSE PyDict(<<>>)

\* the value of the latest layer that defines the key
Visible(key) ==
    IF DictHas(InlineLayer, key) THEN DictGet(InlineLayer, key)
    ELSE IF DictHas(FileLayer, key) THEN DictGet(FileLayer, key)
    ELSE DictGet(ReservedLayer, key)

\* the record the current job is bound to when foreach is set
JobRecord == data.v[((job - 1) % Len(data.v)) + 1]

\* C16: the variables handed to the template are the reserved variables
\* data, meta, config, overlaid by the context file, overlaid by the
\* config's inline context, which holds the foreach binding: every key shows
\* the value of the latest layer defining it.
C16_ContextPrecedence ==
    JobRendered =>
        /\ DictKeys(result.vars) =
               DictKeys(ReservedLayer) \cup DictKeys(FileLayer)
                   \cup DictKeys(InlineLayer)
        /\ \A key \in DictKeys(result.vars) :
               DictGet(result.vars, key) = Visible(key)
        /\ CurrentConfig.foreach # None =>
               /\ DictHas(result.vars, CurrentConfig.foreach.v)
               /\ DictGet(result.vars, CurrentConfig.foreach.v) = JobRecord

\* a job with foreach "a", inline context {"k": 2, "data": 0} and a context
\* file {"a": 5, "z": 6, "meta": 0}: the binding wins over the file's "a",
\* the inline "data" and the file's "meta" shadow the reserved variables
C16_Witness ==
    /\ pc = "write"
    /\ config.foreach = PyStr(K_a)
    /\ config.context = PyDict(<< <<K_k, PyInt(2)>>, <<K_data, PyInt(0)>> >>)
    /\ context_override = None
    /\ CurrentConfig.context_file # None
    /\ ctx_file.state = "yaml" /\ ctx_file.content # None
    /\ DictGet(result.vars, K_a) = R_x
    /\ DictGet(result.vars, K_data) = PyInt(0)
    /\ DictGet(result.vars, K_meta) = PyInt(0)
    /\ DictGet(result.vars, <<"z">>) = PyInt(6)
    /\ DictGet(result.vars, K_k) = PyInt(2)
    /\ DictHas(result.vars, K_config)

\* no job has been rendered, no directory created, no file written
NothingWritten ==
    /\ writes = <<>> /\ mkdirs = <<>> /\ result_paths = <<>>
    /\ result = Unused

\* the base configs of the expansion: one per output spec, or the config
\* itself when there are no specs
CookBases ==
    IF outputs # None /\ Len(outputs.v) > 0
    THEN [i \in DOMAIN outputs.v |-> apply_output_spec(Overridden, outputs.v[i])]
    ELSE <<Overridden>>

\* the output of base i has a placeholder that record j does not resolve
PairFails(i, j) ==
    interpolate_path(Str(CookBases[i].output),
                     PyDict(<< <<Overridden.foreach.v,
                                 loaded.value.raw.v[j]>> >>)).kind = "error"

\* the data is loaded and the expansion fails on some (spec, record) pair
ExpansionFails ==
    /\ loaded.kind = "ok"
    /\ Overridden.foreach # None
    /\ \E i \in DOMAIN CookBases, j \in DOMAIN loaded.value.raw.v : PairFails(i, j)

\* C17: the whole expansion comes before any rendering or writing. Nothing
\* is rendered, created or written until expand_config has returned, and when
\* any (spec, record) pair fails to expand the call raises the ConfigError
\* with no output file written and no output directory created.
C17_EagerExpansion ==
    /\ pc \in {"cook", "cook_from_config", "expand"} => NothingWritten
    /\ pc \in {"loop", "render", "mkdir", "write", "returned"} =>
           expanded.kind = "ok"
    /\ ExpansionFails =>
           /\ NothingWritten
           /\ pc \in {"cook_from_config", "expand", "raised"}
           /\ pc = "raised" =>
                  /\ cooked.kind = "error" /\ cooked.error = "ConfigError"
                  /\ cooked = expanded

\* output "x/{a.s}" with foreach "a" over two records: the first resolves,
\* the last has no "s"; the call has raised and nothing is on disk
C17_Witness ==
    /\ pc = "raised"
    /\ outputs = None /\ output_override = None
    /\ config.output = PathOf(<<"x", "/", "{", "a", ".", "s", "}">>)
    /\ config.foreach = PyStr(K_a)
    /\ loaded.kind = "ok" /\ loaded.value.raw = PyTuple(<<R_7, R_t>>)
    /\ ~PairFails(1, 1) /\ PairFails(1, 2)
    /\ expanded.kind = "error" /\ cooked = expanded
    /\ NothingWritten

\* the number of expanded configs
NumJobs == Len(expanded.value)

\* the path job j writes to and the text rendered for it
JobPath(j) == resolve_path(expanded.value[j], expanded.value[j].output)
JobText(j) ==
    render_single(expanded.value[j], loaded.value,
                  assemble_context(expanded.value[j], ctx_file).value)

\* the files written are those of the first n jobs, in order, each with the
\* text rendered for its job
WrittenUpTo(n) ==
    /\ Len(writes) = n
    /\ \A j \in 1..n : writes[j] = [path |-> JobPath(j), text |-> JobText(j)]

\* the call has raised while cooking the job at index job
JobFailed == pc = "raised" /\ expanded.kind = "ok"

\* C18: when job k of the expanded list fails (context file, render, mkdir
\* or write), the files of the jobs before k are written with their rendered
\* text, nothing of job k or of a later job is written, no later job is
\* rendered, and the call raises the error instead of returning paths.
C18_FailureKeepsEarlierJobs ==
    JobFailed =>
        /\ job \in 1..NumJobs
        /\ WrittenUpTo(job - 1)
        /\ Len(mkdirs) \in {job - 1, job}
        /\ \/ result = Unused
           \/ \E j \in {job - 1, job} \cap (1..NumJobs) :
                  /\ assemble_context(expanded.value[j], ctx_file).kind = "ok"
                  /\ result = JobText(j)
        /\ cooked.kind = "error"
        /\ cooked.error \in {"ConfigError", "RenderError", "OSError"}

\* four jobs, the third fails to render after two files were written
C18_Witness ==
    /\ JobFailed
    /\ NumJobs = 4 /\ job = 3
    /\ cooked = Raised("RenderError", "Render failed")
    /\ Len(writes) = 2
    /\ writes[1].path # writes[2].path
    /\ writes[1].text # writes[2].text

\* the records of the loaded data
Records == loaded.value.raw.v

\* the output path of base s interpolated with record r, as a Config.output
PairOutput(s, r) ==
    PathOf(interpolate_path(Str(CookBases[s].output),
                            PyDict(<< <<Overridden.foreach.v, Records[r]>> >>)).value)

\* C19: on return the list has one path per expanded config, in expansion
\* order (output spec by output spec, and record by record within a spec),
\* element i is the resolved output path of expanded config i, and each
\* path was written with the text rendered for its job; with foreach set
\* and empty data the list is empty and nothing is written.
C19_ReturnedPaths ==
    pc = "returned" =>
        /\ cooked.kind = "ok"
        /\ Len(cooked.value) = NumJobs
        /\ \A i \in 1..NumJobs : cooked.value[i] = JobPath(i)
        /\ WrittenUpTo(NumJobs)
        /\ Len(mkdirs) = NumJobs
        /\ IF Overridden.foreach = None
           THEN /\ NumJobs = Len(CookBases)
                /\ \A s \in DOMAIN CookBases :
                       cooked.value[s] = resolve_path(CookBases[s], CookBases[s].output)
           ELSE /\ NumJobs = Len(CookBases) * Len(Records)
                /\ \A s \in DOMAIN CookBases, r \in DOMAIN Records :
                       cooked.value[(s - 1) * Len(Records) + r] =
                           resolve_path(CookBases[s], PairOutput(s, r))
                /\ Len(Records) = 0 =>
                       cooked.value = <<>> /\ writes = <<>> /\ mkdirs = <<>>

\* two output specs over two records: b/q/x, b/q/7, /r/x, /r/7 in this order
C19_Witness ==
    /\ pc = "returned"
    /\ config.base_path = PathOf(<<"b">>)
    /\ config.foreach = PyStr(K_a)
    /\ outputs # None /\ Len(outputs.v) = 2
    /\ Records = <<R_x, R_7>>
    /\ cooked = Returned(<< PathOf(<<"b", "/", "q", "/", "x">>),
                            PathOf(<<"b", "/", "q", "/", "7">>),
                            PathOf(<<"/", "r", "/", "x">>),
                            PathOf(<<"/", "r", "/", "7">>) >>)
    /\ \A i \in 1..4 : writes[i].path = cooked.value[i]

-----------------------------------------------------------------------------
(* kodudo/__main__.py: the cook subcommand of main. Each config path on the *)
(* command line names a file that exists or not; cook on an existing file  *)
(* returns its paths or raises, as the specification of cook shows: a      *)
(* ConfigError, DataError or RenderError, or the OSError of a failed mkdir *)
(* or write_text.                                                          *)

\* the subclasses of KodudoError that cook raises
KodudoErrors == {"ConfigError", "DataError", "RenderError"}

\* a config path: the file is missing, or it exists and cook(config_path)
\* returns its paths or raises a KodudoError or an OSError
ConfigArgs ==
    {[exists |-> FALSE, cooks |-> NotCalled]}
    \cup {[exists |-> TRUE, cooks |-> o] :
            o \in {Returned(<<PathOf(<<"o">>)>>)}
                  \cup {Raised(e, "cook failed") :
                          e \in KodudoErrors \cup {"OSError"}}}

\* except KodudoError
IsKodudoError(outcome) == outcome.kind = "error" /\ outcome.error \in KodudoErrors

InitCli ==
    /\ pc = "main"
    /\ argv \in {a \in SeqsUpTo(ConfigArgs, MaxConfigs) : Len(a) >= 1}
    /\ arg_i = 1
    /\ attempts = <<>>
    /\ exit_code = 0
    /\ ObjectsIdle
    /\ path_str = Unused /\ variables = Unused /\ interpolated = NotCalled
    /\ config = Unused /\ outputs = Unused /\ data = Unused
    /\ expanded = NotCalled
    /\ file = Unused /\ loaded = NotCalled
    /\ ConfigIdle /\ CookIdle

\* the loop body for a config path that does not exist
MainMissing ==
    /\ pc = "main"
    /\ arg_i <= Len(argv)
    /\ ~argv[arg_i].exists
    /\ exit_code' = 1
    /\ arg_i' = arg_i + 1
    /\ UNCHANGED <<pc, argv, attempts, path_str, variables, interpolated,
                   config, outputs, data, expanded, file, loaded, cfg_file,
                   batch, cookVars, objVars>>

\* the loop body for a config path that exists: cook it; a KodudoError is
\* reported and the loop goes on, any other exception leaves main
MainCook ==
    /\ pc = "main"
    /\ arg_i <= Len(argv)
    /\ argv[arg_i].exists
    /\ attempts' = Append(attempts, arg_i)
    /\ IF argv[arg_i].cooks.kind = "ok"
       THEN arg_i' = arg_i + 1 /\ UNCHANGED <<pc, exit_code>>
       ELSE IF IsKodudoError(argv[arg_i].cooks)
       THEN arg_i' = arg_i + 1 /\ exit_code' = 1 /\ UNCHANGED pc
       ELSE pc' = "crashed" /\ UNCHANGED <<arg_i, exit_code>>
    /\ UNCHANGED <<argv, path_str, variables, interpolated, config, outputs,
                   data, expanded, file, loaded, cfg_file, batch, cookVars,
                   objVars>>

\* return exit_code
MainReturn ==
    /\ pc = "main"
    /\ arg_i > Len(argv)
    /\ pc' = "exited"
    /\ UNCHANGED <<argv, arg_i, attempts, exit_code, path_str, variables,
                   interpolated, config, outputs, data, expanded, file,
                   loaded, cfg_file, batch, cookVars, objVars>>

NextCli == MainMissing \/ MainCook \/ MainReturn

SpecCli == InitCli /\ [][NextCli]_vars

-----------------------------------------------------------------------------
(* Claims about the command line, checked under SpecCli. *)

\* main is over: it returned, or an exception left it
MainOver == pc \in {"exited", "crashed"}

\* the exit status of the process: sys.exit(main()), and 1 when an uncaught
\* exception ends the interpreter
ExitStatus == IF pc = "crashed" THEN 1 ELSE exit_code

\* the indices of the config paths that exist, in order
ExistingArgs == SelectSeq([i \in DOMAIN argv |-> i], LAMBDA i : argv[i].exists)

\* the config path is missing or cooking it failed
ArgFailed(i) == ~argv[i].exists \/ argv[i].cooks.kind = "error"

\* C20: every config path is processed in the order given, a missing file
\* or a failure while cooking one file never prevents the attempt on a later
\* file, and the exit status is non-zero exactly when some file was missing
\* or failed.
C20_CliContinues ==
    MainOver =>
        /\ attempts = ExistingArgs
        /\ ExitStatus # 0 <=> \E i \in DOMAIN argv : ArgFailed(i)

-----------------------------------------------------------------------------
(* Claims about the errors of the public functions, checked under SpecCook. *)

\* C21: every failure of cook and cook_from_config (and through them of
\* load_config, load_data and expand_config) reaches the caller as a
\* ConfigError, a DataError or a RenderError: no native failure of the file
\* system or of a parser escapes unwrapped.
C21_TypedErrors ==
    cooked.kind = "error" => cooked.error \in KodudoErrors

-----------------------------------------------------------------------------
(* Claims about the context file, checked under SpecCook. *)

\* the context of the current job is assembled
ContextLoaded == pc \in {"render", "mkdir", "write"}

\* the current job names a context file
NamesContextFile == CurrentConfig.context_file # None

\* the file at the context path is missing, unreadable, not valid YAML, or
\* parses to something other than a mapping
BadContextFile ==
    \/ ctx_file.state \in {"missing", "unreadable", "invalid"}
    \/ ctx_file.content # None /\ ~IsDict(ctx_file.content)

\* what a good context file parses to: the empty mapping for an empty file
FileMapping == IF ctx_file.content = None THEN PyDict(<<>>) ELSE ctx_file.content

\* the context of the current job is the layer below overlaid by the
\* config's inline context
ContextOver(layer) ==
    /\ DictKeys(cook_context) = DictKeys(layer) \cup DictKeys(InlineLayer)
    /\ \A key \in DictKeys(layer) \ DictKeys(InlineLayer) :
           DictGet(cook_context, key) = DictGet(layer, key)

\* C22: a job that names a context file fails with a ConfigError when the
\* file is missing, unreadable, not valid YAML or not a mapping, and otherwise
\* gets the parsed mapping as its context-file layer, the empty mapping for
\* an empty file; a job that names no context file gets the empty mapping
\* whatever is at the context path.
C22_ContextFile ==
    /\ ContextLoaded /\ NamesContextFile =>
           ~BadContextFile /\ ContextOver(FileMapping)
    /\ ContextLoaded /\ ~NamesContextFile => ContextOver(PyDict(<<>>))
    /\ JobFailed /\ cooked.error = "ConfigError" =>
           NamesContextFile /\ BadContextFile
    /\ JobFailed /\ NamesContextFile /\ BadContextFile =>
           cooked.error = "ConfigError"

\* a job whose context file holds {"a": 5, "z": 6, "meta": 0} and whose
\* inline context has no "z": the context shows the file's "z"
C22_Witness ==
    /\ pc = "render"
    /\ NamesContextFile
    /\ ctx_file.state = "yaml" /\ IsDict(ctx_file.content)
    /\ DictGet(cook_context, <<"z">>) = PyInt(6)

-----------------------------------------------------------------------------
(* Claims about the overrides of cook_from_config, checked under SpecCook. *)

\* the keys an output spec's context or the foreach binding may set over
\* the config's context
SpecKeys ==
    (IF config.foreach # None THEN {config.foreach.v} ELSE {})
    \cup (IF outputs = None THEN {}
          ELSE UNION {DictKeys(OrEmptyDict(outputs.v[i].context)) :
                        i \in DOMAIN outputs.v})

\* the paths the given config would be written to with no override and no
\* output specs
OriginalPaths ==
    LET plain == expand_config(config, None, data)
    IN  IF plain.kind = "ok"
        THEN {resolve_path(plain.value[j], plain.value[j].output) :
                j \in DOMAIN plain.value}
        ELSE {}

\* the overrides as every expanded config shows them
OverridesApplied ==
    pc \in {"loop", "render", "mkdir", "write", "returned"} =>
        /\ context_override # None =>
               \A j \in DOMAIN expanded.value :
                   LET ctx == expanded.value[j].context
                   IN  /\ \A key \in DictKeys(context_override) \ SpecKeys :
                              /\ DictHas(ctx, key)
                              /\ DictGet(ctx, key) = DictGet(context_override, key)
                       /\ \A key \in DictKeys(OrEmptyDict(config.context))
                                       \ (DictKeys(context_override) \cup SpecKeys) :
                              /\ DictHas(ctx, key)
                              /\ DictGet(ctx, key) = DictGet(config.context, key)
        /\ output_override # None =>
               /\ \A i \in DOMAIN writes : writes[i].path \notin OriginalPaths
               /\ outputs = None =>
                      \A j \in DOMAIN expanded.value :
                          expanded.value[j].output = PathOf(output_override.v)
        /\ context_override = None /\ output_override = None =>
               expanded = expand_config(config, outputs, data)

\* C23: cook_from_config applies its overrides to a copy of the config
\* before expansion: the context override is merged over the config's own
\* context (the override wins, the other keys are kept), the output override
\* replaces the output so that nothing is written to the original path, with
\* neither the config is used as given, and the Config passed in is never
\* changed.
C23_Overrides ==
    /\ []OverridesApplied
    /\ [][pc # "cook" => config' = config]_vars

\* config context {"a": 1, "k": 2} with the overrides {"k": 7, "z": 1} and
\* "v": the job's context has a = 1, k = 7, z = 1 and the file written is
\* b/v or v, while the config still has its own context and output
C23_Witness ==
    /\ pc = "returned"
    /\ outputs = None /\ config.foreach = None
    /\ config.context = PyDict(<< <<K_a, PyInt(1)>>, <<K_k, PyInt(2)>> >>)
    /\ config.output = PathOf(<<"o">>)
    /\ context_override # None /\ output_override # None
    /\ DictGet(expanded.value[1].context, K_a) = PyInt(1)
    /\ DictGet(expanded.value[1].context, K_k) = PyInt(7)
    /\ DictGet(expanded.value[1].context, <<"z">>) = PyInt(1)
    /\ Len(writes) = 1
    /\ writes[1].path \in {PathOf(<<"v">>), PathOf(<<"b", "/", "v">>)}

-----------------------------------------------------------------------------
(* Claims about the format label, checked under SpecCook. *)

\* C24: the value a template sees as config.format is the label get_format
\* resolves, the explicit format when one is set and otherwise the one
\* inferred from the template name, and is always one of html, markdown and
\* text.
C24_FormatLabel ==
    JobRendered /\ ~DictHas(cook_context, K_config) =>
        DictGet(DictGet(result.vars, K_config), K_format) \in FormatLiterals

-----------------------------------------------------------------------------
(* Claims about the data of a job, checked under SpecCook. *)

\* the path cook_from_config loads the data from: the resolved input of the
\* config it was given, read once before the expansion
LoadedFrom == resolved_input(Overridden)

\* C25: the data and meta a job's template sees are loaded from the job's
\* own resolved input path, the path the template sees as config.input,
\* also for a job derived from an output spec that overrides input.
C25_JobData ==
    JobRendered /\ ~DictHas(cook_context, K_config) =>
        DictGet(DictGet(result.vars, K_config), K_input) = PyStr(Str(LoadedFrom))

-----------------------------------------------------------------------------
(* Claims about the reserved names, checked under SpecCook. *)

\* C26: no config that reaches expand_config or rendering, whether
\* load_config produced it or the caller built it, has a foreach equal to
\* data, meta or config, so the foreach binding never replaces a reserved
\* template variable.
C26_ReservedForeach ==
    pc \in {"expand", "loop", "render", "mkdir", "write", "returned"} =>
        Overridden.foreach \notin RESERVED_FOREACH_NAMES

-----------------------------------------------------------------------------
(* Claims about the objects of expand_config, checked under SpecExpand. *)

\* every object given to the call holds what it held before the call
InputsUnchanged ==
    LET before == InputHeap(config, outputs, data)
    IN  \A id \in DOMAIN before : heap[id] = before[id]

\* the context of returned config n as its object holds it
LiveContext(n) ==
    IF context_ids[n] = None THEN None ELSE heap[context_ids[n]]

\* returned config n has a merged context: it was produced by foreach or by
\* an output spec with a context override
HasMergedContext(n) ==
    \/ has_foreach(config)
    \/ has_outputs(outputs) /\ outputs.v[n].context # None

\* C27: expand_config changes none of its inputs, whether it returns or
\* raises: the config's context, the context of every output spec and the
\* records hold what they held before. Every merged context is a new
\* mapping: a key written into the context of one derived config shows in
\* that config alone, not in the base config, the output specs or any other
\* derived config with a merged context.
C27_NoSharedContext ==
    /\ pc = "done" =>
           /\ InputsUnchanged
           /\ expanded.kind = "ok" =>
                  /\ Len(context_ids) = Len(expanded.value)
                  /\ \A n \in DOMAIN context_ids :
                         LiveContext(n) = expanded.value[n].context
    /\ pc = "written" /\ HasMergedContext(written) =>
           /\ InputsUnchanged
           /\ DictHas(LiveContext(written), <<"w">>)
           /\ \A n \in DOMAIN context_ids \ {written} :
                  HasMergedContext(n) =>
                      LiveContext(n) = expanded.value[n].context

\* two derived configs of a config with a context: the key written into the
\* second one's context is in neither the first one's nor the base config's
C27_Witness ==
    /\ pc = "written" /\ written = 2
    /\ HasMergedContext(1) /\ HasMergedContext(2)
    /\ config.context = PyDict(<< <<K_a, PyInt(1)>>, <<K_k, PyInt(2)>> >>)
    /\ DictHas(LiveContext(2), <<"w">>)
    /\ ~DictHas(LiveContext(1), <<"w">>)
    /\ ~DictHas(heap[ObjId("config", 0)], <<"w">>)

-----------------------------------------------------------------------------
(* Claims about the steps of a job and the files on disk, checked under    *)
(* SpecCook.                                                               *)

\* the content of the file at path, Absent when there is none
FileAt(path) == IF path \in DOMAIN disk THEN disk[path] ELSE Absent

\* the jobs before job k that resolve to path
EarlierJobs(k, path) == {j \in 1..(k - 1) : JobPath(j) = path}

\* what the file at path held when job k began: the text of the last
\* earlier job resolving to it, else what was there before the call
ContentBefore(k, path) ==
    IF EarlierJobs(k, path) # {}
    THEN JobText(CHOOSE j \in EarlierJobs(k, path) :
                     \A i \in EarlierJobs(k, path) : i <= j)
    ELSE IF path \in DOMAIN ExistingFiles THEN ExistingFiles[path]
    ELSE Absent

\* where each step of the current job stands
StepsInOrder ==
    /\ pc \in {"loop", "render", "mkdir"} =>
           Len(mkdirs) = job - 1 /\ Len(writes) = job - 1
    /\ ContextLoaded =>
           /\ NamesContextFile => ~BadContextFile
           /\ assemble_context(CurrentConfig, ctx_file) = Returned(cook_context)
    /\ JobRendered => result = JobText(job)
    /\ pc = "write" =>
           /\ Len(mkdirs) = job /\ Len(writes) = job - 1
           /\ mkdirs[job] = PathParent(JobPath(job))
    /\ JobFailed /\ cooked.error \in {"ConfigError", "RenderError"} =>
           /\ Len(mkdirs) = job - 1 /\ Len(writes) = job - 1
           /\ FileAt(JobPath(job)) = ContentBefore(job, JobPath(job))

\* a step of cook changes only what its place in the order allows
StepChanges ==
    /\ pc = "loop" => pc' \in {"render", "raised", "returned"}
    /\ pc = "render" => pc' \in {"mkdir", "raised"}
    /\ pc = "mkdir" => pc' \in {"write", "raised"}
    /\ pc = "write" => pc' \in {"loop", "raised"}
    /\ cook_context' # cook_context => pc = "loop"
    /\ result' # result => pc = "render"
    /\ mkdirs' # mkdirs => pc = "mkdir"
    /\ writes' # writes \/ disk' # disk => pc = "write"

\* C28: within one job the steps come in the order context-file load,
\* render, create the output directory, write the file, each only when the
\* one before it succeeded; a job whose context file or render fails
\* creates no directory and writes no file, and a file already at its
\* output path keeps its content.
C28_JobSteps ==
    /\ []StepsInOrder
    /\ [][StepChanges]_vars

\* the only job fails to render: no directory is created and the old file
\* at its output path is as it was
C28_Witness ==
    /\ JobFailed /\ job = 1
    /\ cooked = Raised("RenderError", "Render failed")
    /\ JobPath(1) \in DOMAIN ExistingFiles
    /\ disk[JobPath(1)] = ExistingFiles[JobPath(1)]
    /\ mkdirs = <<>> /\ writes = <<>>

-----------------------------------------------------------------------------
(* Claims about the placeholders of the outputs, checked under SpecExpand. *)

\* the outputs before interpolation: the output of every spec, or of the
\* config when there are no specs, as a Config holds it
BaseOutputs ==
    IF has_outputs(outputs)
    THEN [i \in DOMAIN outputs.v |-> PathOf(outputs.v[i].output.v)]
    ELSE <<config.output>>

\* s has a placeholder whose first segment is not the foreach name
ForeignPlaceholder(s) ==
    \E p \in PlaceholderStarts(s) :
        Segment(PlaceholderExpr(s, p), 1) # config.foreach.v

-----------------------------------------------------------------------------
(* Claims about jobs that share an output path, checked under SpecCook. *)

\* the jobs that resolve to path
JobsAt(path) == {j \in 1..NumJobs : JobPath(j) = path}

\* C30: jobs that resolve to the same output path are all rendered and
\* written, in expansion order, without an error: at every moment each file
\* holds the text of the last job written to it, and on return the list has
\* the path once for each of its jobs and the file holds the text rendered
\* for the last of them.
C30_PathCollisions ==
    /\ pc \in {"loop", "render", "mkdir", "write", "returned"} =>
           /\ WrittenUpTo(Len(writes))
           /\ \A path \in DOMAIN disk :
                  disk[path] = ContentBefore(Len(writes) + 1, path)
    /\ pc = "returned" =>
           /\ cooked.kind = "ok"
           /\ Len(writes) = NumJobs
           /\ \A j \in 1..NumJobs :
                  LET path == JobPath(j)
                      last == CHOOSE k \in JobsAt(path) :
                                  \A i \in JobsAt(path) : i <= k
                  IN  /\ Cardinality({i \in DOMAIN cooked.value :
                                         cooked.value[i] = path})
                            = Cardinality(JobsAt(path))
                      /\ disk[path] = JobText(last)

\* two records expanded to the same path "b/o" or "o": both jobs are
\* written, the path is returned twice and the file holds the second text
C30_Witness ==
    /\ pc = "returned"
    /\ NumJobs = 2
    /\ JobPath(1) = JobPath(2)
    /\ JobText(1) # JobText(2)
    /\ cooked.value = <<JobPath(1), JobPath(1)>>
    /\ writes[1].text = JobText(1)
    /\ disk[JobPath(1)] = JobText(2)

====
